---- MODULE Spec2Model ----
(***************************************************************************)
(* Streaming translation layer of the aisforagent CLI: the SSE framer and  *)
(* the tool-call accumulator of the OpenAI-compatible provider, the        *)
(* streaming path of the Gemini adapter, and the JSON repair utility they  *)
(* rest on.                                                                *)
(*                                                                         *)
(* Spec is one streaming call, line by line; AbortSpec is such a call with *)
(* a caller that may abort.  FramerSpec is the framer                      *)
(* over the bytes of a body, cut into reads at any place.  ConcSpec is two *)
(* calls of one provider, interleaved.  ReqSpec is the request path: the   *)
(* body sent, the HTTP status, the handlers.  TruncSpec is                 *)
(* truncateToolResult, JsonSpec is safeParseJson with its repair pass,     *)
(* TipSpec is LlmProviderError.createWithTip, ContentSpec is               *)
(* convertContent and FactorySpec is createLlmProvider.  RespSpec is the   *)
(* conversion of a non-streaming response, ToolsSpec the mapping of the    *)
(* tool declarations, FinalSpec the accumulation and finalization of       *)
(* tool-call fragments of any content, RegistrySpec the provider registry  *)
(* and TurnSpec the loop of runNonInteractive.  Each specification leaves  *)
(* the variables of the others idle.                                       *)
(*                                                                         *)
(* Strings are sequences of one-character strings, so that concatenation,  *)
(* trimming, the regular-expression rewrites of the repair pass and JSON   *)
(* parsing are computed, character by character.                           *)
(***************************************************************************)
EXTENDS Integers, Sequences, FiniteSets, TLC

(***************************************************************************)
(* Bounds of the model.                                                    *)
(***************************************************************************)
\* Lines of the response body (OpenAI dialect) or chunks (Gemini) per call.
MaxLines == 3
\* Most lines one network read delivers.
MaxRead == 2

(***************************************************************************)
(* Characters.                                                             *)
(***************************************************************************)
LB == "{"
RB == "}"
LS == "["
RS == "]"
CM == ","
CL == ":"
QT == "\""
SP == " "
LETTER == "a"
DIGIT == "1"

\* The characters texts are made of.
JsonChars == {LB, RB, LS, RS, CM, CL, QT, SP, LETTER, DIGIT}

RECURSIVE Concat(_)
\* Array.prototype.join(''): the concatenation of a sequence of strings.
Concat(ss) == IF ss = <<>> THEN <<>> ELSE Head(ss) \o Concat(Tail(ss))

(***************************************************************************)
(* JSON.parse, on the characters above.  A value is represented by its     *)
(* text with the insignificant white space removed; two texts denote the   *)
(* same value exactly when these representations are equal (objects with   *)
(* repeated or reordered keys are outside the inputs used here).           *)
(***************************************************************************)
ParseFail == [ok |-> FALSE, pos |-> 0, val |-> <<>>]
ParseOk(p, v) == [ok |-> TRUE, pos |-> p, val |-> v]

RECURSIVE SkipWs(_, _)
SkipWs(s, i) == IF i <= Len(s) /\ s[i] = SP THEN SkipWs(s, i + 1) ELSE i

RECURSIVE StringEnd(_, _)
\* Index of the closing quote of a string literal whose body starts at i (0: none).
StringEnd(s, i) ==
  IF i > Len(s) THEN 0 ELSE IF s[i] = QT THEN i ELSE StringEnd(s, i + 1)

RECURSIVE DigitsEnd(_, _)
\* First index after the run of digits that starts at i.
DigitsEnd(s, i) == IF i <= Len(s) /\ s[i] = DIGIT THEN DigitsEnd(s, i + 1) ELSE i

RECURSIVE ParseValue(_, _)
RECURSIVE ParseMembers(_, _, _)
RECURSIVE ParseElements(_, _, _)

ParseValue(s, i0) ==
  LET i == SkipWs(s, i0) IN
  IF i > Len(s) THEN ParseFail
  ELSE IF s[i] = QT THEN
    LET j == StringEnd(s, i + 1) IN
    IF j = 0 THEN ParseFail ELSE ParseOk(j + 1, SubSeq(s, i, j))
  ELSE IF s[i] = DIGIT THEN
    LET j == DigitsEnd(s, i) IN ParseOk(j, SubSeq(s, i, j - 1))
  ELSE IF s[i] = LB THEN
    LET j == SkipWs(s, i + 1) IN
    IF j <= Len(s) /\ s[j] = RB THEN ParseOk(j + 1, <<LB, RB>>)
    ELSE ParseMembers(s, j, <<LB>>)
  ELSE IF s[i] = LS THEN
    LET j == SkipWs(s, i + 1) IN
    IF j <= Len(s) /\ s[j] = RS THEN ParseOk(j + 1, <<LS, RS>>)
    ELSE ParseElements(s, j, <<LS>>)
  ELSE ParseFail

ParseMembers(s, i0, acc) ==
  LET i == SkipWs(s, i0) IN
  IF i > Len(s) \/ s[i] # QT THEN ParseFail
  ELSE
    LET j == StringEnd(s, i + 1) IN
    IF j = 0 THEN ParseFail
    ELSE
      LET k == SkipWs(s, j + 1) IN
      IF k > Len(s) \/ s[k] # CL THEN ParseFail
      ELSE
        LET v == ParseValue(s, k + 1) IN
        IF ~v.ok THEN ParseFail
        ELSE
          LET m == SkipWs(s, v.pos)
              acc2 == acc \o SubSeq(s, i, j) \o <<CL>> \o v.val
          IN
          IF m > Len(s) THEN ParseFail
          ELSE IF s[m] = RB THEN ParseOk(m + 1, acc2 \o <<RB>>)
          ELSE IF s[m] = CM THEN ParseMembers(s, m + 1, acc2 \o <<CM>>)
          ELSE ParseFail

ParseElements(s, i0, acc) ==
  LET v == ParseValue(s, i0) IN
  IF ~v.ok THEN ParseFail
  ELSE
    LET m == SkipWs(s, v.pos)
        acc2 == acc \o v.val
    IN
    IF m > Len(s) THEN ParseFail
    ELSE IF s[m] = RS THEN ParseOk(m + 1, acc2 \o <<RS>>)
    ELSE IF s[m] = CM THEN ParseElements(s, m + 1, acc2 \o <<CM>>)
    ELSE ParseFail

\* JSON.parse(s): [ok |-> TRUE, val |-> value], or ok = FALSE when it throws.
JsonParse(s) ==
  LET v == ParseValue(s, 1) IN
  IF v.ok /\ SkipWs(s, v.pos) = Len(s) + 1
  THEN [ok |-> TRUE, val |-> v.val]
  ELSE [ok |-> FALSE, val |-> <<>>]

(***************************************************************************)
(* The repair pass of errorHandling.ts.                                    *)
(***************************************************************************)
RECURSIVE TrimLeft(_)
TrimLeft(s) == IF s # <<>> /\ Head(s) = SP THEN TrimLeft(Tail(s)) ELSE s

RECURSIVE TrimRight(_)
TrimRight(s) ==
  IF s # <<>> /\ s[Len(s)] = SP THEN TrimRight(SubSeq(s, 1, Len(s) - 1)) ELSE s

\* String.prototype.trim()
Trim(s) == TrimRight(TrimLeft(s))

\* (s.match(/c/g) || []).length
CountChar(s, c) == Cardinality({i \in 1..Len(s) : s[i] = c})

\* c.repeat(n)
Repeat(c, n) == [i \in 1..n |-> c]

\* Append the missing closers of one kind.
Balance(s, open, close) ==
  IF CountChar(s, open) > CountChar(s, close)
  THEN s \o Repeat(close, CountChar(s, open) - CountChar(s, close))
  ELSE s

\* The first index from i on whose character is in chars (Len(s) + 1: none):
\* where the scan of a regular expression can next start a match.
FirstIn(s, i, chars) ==
  LET found == {k \in i..Len(s) : s[k] \in chars} IN
  IF found = {} THEN Len(s) + 1
  ELSE CHOOSE k \in found : \A m \in found : k <= m

RECURSIVE StripTrailingCommas(_, _)
\* s.replace(/,(\s*[}\]])/g, '$1'), scanning from index i: c is the next
\* comma, j the first character after the white space that follows it.
StripTrailingCommas(s, i) ==
  LET c == FirstIn(s, i, {CM}) IN
  IF c > Len(s) THEN SubSeq(s, i, Len(s))
  ELSE
    LET j == SkipWs(s, c + 1) IN
    IF j <= Len(s) /\ s[j] \in {RB, RS}
    THEN SubSeq(s, i, c - 1) \o SubSeq(s, c + 1, j) \o StripTrailingCommas(s, j + 1)
    ELSE SubSeq(s, i, c) \o StripTrailingCommas(s, c + 1)

\* First index after the run of \w characters that starts at i.
WordEnd(s, i) ==
  LET found == {k \in i..Len(s) : s[k] \notin {LETTER, DIGIT}} IN
  IF found = {} THEN Len(s) + 1
  ELSE CHOOSE k \in found : \A m \in found : k <= m

RECURSIVE QuoteKeys(_, _)
\* s.replace(/(\{|\s|,)(\w+):/g, '$1"$2":'), scanning from index i: p is the
\* next character a match can start with, j the end of the word after it.
QuoteKeys(s, i) ==
  LET p == FirstIn(s, i, {LB, SP, CM}) IN
  IF p > Len(s) THEN SubSeq(s, i, Len(s))
  ELSE
    LET j == WordEnd(s, p + 1) IN
    IF j > p + 1 /\ j <= Len(s) /\ s[j] = CL
    THEN SubSeq(s, i, p) \o <<QT>> \o SubSeq(s, p + 1, j - 1) \o <<QT, CL>>
           \o QuoteKeys(s, j + 1)
    ELSE SubSeq(s, i, p) \o QuoteKeys(s, p + 1)

attemptJsonRepair(jsonString) ==
  LET trimmed  == Trim(jsonString)
      braces   == Balance(trimmed, LB, RB)
      brackets == Balance(braces, LS, RS)
      commas   == StripTrailingCommas(brackets, 1)
  IN QuoteKeys(commas, 1)

\* safeParseJson: the direct parse, else the parse of the repaired text;
\* ok = FALSE when it throws.
safeParseJson(jsonString) ==
  LET direct == JsonParse(jsonString) IN
  IF direct.ok THEN direct ELSE JsonParse(attemptJsonRepair(jsonString))

(***************************************************************************)
(* The wire: what one line of the SSE body can be, once framed.            *)
(***************************************************************************)
\* A ToolCallFragment: delta.tool_calls[n]; "" and <<>> stand for an absent or
\* empty (falsy) field.
Frag(i, id, name, args) ==
  [index |-> i, id |-> id, name |-> name, arguments |-> args]

MkLine(kind, hasChoice, content, toolCalls, finish) ==
  [kind |-> kind, hasChoice |-> hasChoice, content |-> content,
   tool_calls |-> toolCalls, finish_reason |-> finish]

\* "data: [DONE]"
DoneLine == MkLine("done", FALSE, <<>>, <<>>, "")
\* a "data: " line whose payload does not parse, even after repair
GarbageLine == MkLine("garbage", FALSE, <<>>, <<>>, "")
\* a blank line, or a line that does not start with "data: "
OtherLine == MkLine("other", FALSE, <<>>, <<>>, "")
\* a "data: " line whose payload parses to a ChatCompletionChunk
Chunk(content, toolCalls, finish) == MkLine("chunk", TRUE, content, toolCalls, finish)
\* a chunk without choices[0]
NoChoiceChunk == MkLine("chunk", FALSE, <<>>, <<>>, "")

\* Argument fragments: {"a":1 and } .  Their concatenation parses; the first
\* alone parses after repair; the second alone, or both in the other order,
\* parse neither directly nor after repair.
ArgOpen == <<LB, QT, LETTER, QT, CL, DIGIT>>
ArgClose == <<RB>>

Texts == {<<"H">>, <<"i">>}

\* Chunks that carry text only, a finish reason only, or both.
TextChunks ==
  {Chunk(t, <<>>, "") : t \in Texts}
    \cup {Chunk(<<"i">>, <<>>, "stop"), Chunk(<<>>, <<>>, "stop")}

\* Chunks that carry one fragment: an id and a name, a piece of arguments, or
\* (as LM Studio sends them) everything at once.
ToolChunks ==
  { Chunk(<<>>, <<Frag(0, "call_A", "search", <<>>)>>, ""),
    Chunk(<<>>, <<Frag(0, "call_B", "get_time", <<>>)>>, ""),
    Chunk(<<>>, <<Frag(0, "", "", ArgOpen)>>, ""),
    Chunk(<<>>, <<Frag(0, "", "", ArgClose)>>, ""),
    Chunk(<<>>, <<Frag(1, "call_B", "get_time", ArgOpen)>>, "") }

\* Chunks that carry text and two fragments at once, the higher index first.
MixedChunks ==
  { Chunk(<<"H">>, <<Frag(1, "", "get_time", ArgClose),
                     Frag(0, "", "search", ArgOpen)>>, ""),
    Chunk(<<"i">>, <<Frag(2, "", "", ArgOpen),
                     Frag(0, "call_A", "", ArgClose)>>, "stop") }

Lines ==
  {DoneLine, GarbageLine, OtherLine, NoChoiceChunk}
    \cup TextChunks \cup ToolChunks \cup MixedChunks

Min(a, b) == IF a <= b THEN a ELSE b

\* The non-empty sequences of at most n elements of S.
SeqsUpTo(S, n) == UNION {[1..k -> S] : k \in 1..n}

(***************************************************************************)
(* The Gemini dialect: chunks of the content generator's stream.           *)
(***************************************************************************)
Part(text, functionCall) == [text |-> text, functionCall |-> functionCall]

GeminiChunkOf(hasParts, parts) == [hasParts |-> hasParts, parts |-> parts]

GeminiChunks ==
  { GeminiChunkOf(FALSE, <<>>),
    GeminiChunkOf(TRUE, <<>>),
    GeminiChunkOf(TRUE, <<Part(<<"H">>, "")>>),
    GeminiChunkOf(TRUE, <<Part(<<"i">>, "")>>),
    GeminiChunkOf(TRUE, <<Part(<<"H">>, ""), Part(<<"i">>, "")>>),
    GeminiChunkOf(TRUE, <<Part(<<>>, "search")>>),
    GeminiChunkOf(TRUE, <<Part(<<>>, "get_time")>>),
    GeminiChunkOf(TRUE, <<Part(<<"i">>, ""), Part(<<>>, "search")>>),
    GeminiChunkOf(TRUE, <<Part(<<>>, "search"), Part(<<>>, "get_time")>>) }

(***************************************************************************)
(* Responses.                                                              *)
(***************************************************************************)
\* The arguments value {}.
EmptyObject == <<LB, RB>>

\* `call_${Date.now()}_${random}`: what a locally generated id can be.
GenIds == {"call_gen1", "call_gen2", "call_gen3"}

\* The ids generated for the n tool calls of one response: the time and nine
\* random digits, taken to differ from one tool call to the next.
GenChoices(n) ==
  {g \in [1..n -> GenIds] : \A i, j \in 1..n : i # j => g[i] # g[j]}

\* An LlmResponse; hasText / hasToolCalls say whether the field is present.
Response(hasText, text, hasToolCalls, toolCalls) ==
  [hasText |-> hasText, text |-> text,
   hasToolCalls |-> hasToolCalls, toolCalls |-> toolCalls]

\* const finalResponse: LlmResponse = {}
EmptyResponse == Response(FALSE, <<>>, FALSE, <<>>)

(***************************************************************************)
(* The tool-call accumulator (a Map, kept here in insertion order).        *)
(***************************************************************************)
HasIndex(accs, i) == \E k \in 1..Len(accs) : accs[k].index = i

\* Variant of UpdateField that keeps a value once it is set.
UpdateField_KeepFirst(old, new) == IF old = "" THEN new ELSE old

\* if (toolCallDelta.id) accumulator.id = toolCallDelta.id   (and the name)
UpdateField(old, new) == IF new # "" THEN new ELSE old

\* Faulty variant of AppendArgs: = in place of +=.
AppendArgs_Overwrite(argsSrc, arguments) == arguments

\* accumulator.argsSrc += toolCallDelta.function.arguments
AppendArgs(argsSrc, arguments) == argsSrc \o arguments

\* The body of the loop over delta.tool_calls, for one fragment.
AccumulateFragment(accs, f) ==
  LET have == IF HasIndex(accs, f.index) THEN accs
              ELSE Append(accs, [index |-> f.index, id |-> "", name |-> "",
                                 argsSrc |-> <<>>])
  IN [k \in 1..Len(have) |->
        IF have[k].index = f.index
        THEN [have[k] EXCEPT !.id = UpdateField(@, f.id),
                             !.name = UpdateField(@, f.name),
                             !.argsSrc = AppendArgs(@, f.arguments)]
        ELSE have[k]]

RECURSIVE AccumulateAll(_, _)
\* for (const toolCallDelta of delta.tool_calls) ...
AccumulateAll(accs, frags) ==
  IF frags = <<>> THEN accs
  ELSE AccumulateAll(AccumulateFragment(accs, Head(frags)), Tail(frags))

\* The position of the entry with the least index.
MinPos(accs) ==
  CHOOSE k \in 1..Len(accs) : \A j \in 1..Len(accs) : accs[k].index <= accs[j].index

RemoveAt(seq, k) == SubSeq(seq, 1, k - 1) \o SubSeq(seq, k + 1, Len(seq))

\* Faulty variant of SortByIndex: the entries are left in insertion order.
SortByIndex_Unsorted(accs) == accs

RECURSIVE SortByIndex(_)
\* Array.from(entries()).sort(([a], [b]) => a - b)
SortByIndex(accs) ==
  IF accs = <<>> THEN <<>>
  ELSE <<accs[MinPos(accs)]>> \o SortByIndex(RemoveAt(accs, MinPos(accs)))

\* Faulty variant of ParseToolArgs: the parse without its try/catch.
ParseToolArgs_NoCatch(argsSrc) ==
  LET r == safeParseJson(IF argsSrc = <<>> THEN EmptyObject ELSE argsSrc)
  IN [ok |-> r.ok, val |-> r.val]

\* try { safeParseJson(argsSrc || '{}') } catch { parsedArgs = {} }
\* ok = FALSE would be an exception that leaves the map callback.
ParseToolArgs(argsSrc) ==
  LET r == safeParseJson(IF argsSrc = <<>> THEN EmptyObject ELSE argsSrc)
  IN IF r.ok THEN [ok |-> TRUE, val |-> r.val] ELSE [ok |-> TRUE, val |-> EmptyObject]

\* Faulty variant of ToolCallOf: no id is generated for a tool call without one.
ToolCallOf_NoGeneratedId(acc, gen) ==
  [id |-> acc.id,
   name |-> IF acc.name # "" THEN acc.name ELSE "unknown",
   arguments |-> ParseToolArgs(acc.argsSrc).val]

\* The ToolCall built from one accumulator; gen is the id generated for it.
ToolCallOf(acc, gen) ==
  [id |-> IF acc.id # "" THEN acc.id ELSE gen,
   name |-> IF acc.name # "" THEN acc.name ELSE "unknown",
   arguments |-> ParseToolArgs(acc.argsSrc).val]

\* Faulty variant of BuildResponse: the text field is set without its test.
BuildResponse_AlwaysText(buf, accs, gens) ==
  LET sorted == SortByIndex(accs) IN
  Response(TRUE, Concat(buf), accs # <<>>,
           [k \in 1..Len(sorted) |-> ToolCallOf(sorted[k], gens[k])])

\* "Build final response": the response made of the text buffer and the
\* accumulators; gens[k] is the id generated for the k-th tool call.
BuildResponse(buf, accs, gens) ==
  LET sorted == SortByIndex(accs) IN
  Response(buf # <<>>, Concat(buf), accs # <<>>,
           [k \in 1..Len(sorted) |-> ToolCallOf(sorted[k], gens[k])])

(***************************************************************************)
(* The Gemini adapter's conversion of one chunk.                           *)
(***************************************************************************)
RECURSIVE PartsText(_)
PartsText(parts) ==
  IF parts = <<>> THEN <<>> ELSE Head(parts).text \o PartsText(Tail(parts))

\* The parts that carry a functionCall, in order.
FunctionCallParts(parts) == SelectSeq(parts, LAMBDA p : p.functionCall # "")

convertGeminiResponse(chunk, gens) ==
  LET parts == IF chunk.hasParts THEN chunk.parts ELSE <<>>
      text == PartsText(parts)
      calls == FunctionCallParts(parts)
  IN Response(text # <<>>, text, calls # <<>>,
              [k \in 1..Len(calls) |->
                 [id |-> gens[k], name |-> calls[k].functionCall,
                  arguments |-> EmptyObject]])

(***************************************************************************)
(* One streaming chat call, with handlers.                                 *)
(***************************************************************************)
VARIABLES
  provider,              \* "openai" or "gemini": the adapter that serves the call
  pc,                    \* where the call is: "start", "read", "lines",
                         \* "consume", "finalize", "gread", "resolved", "rejected"
  wire,                  \* the complete lines the reader has delivered so far
  pos,                   \* the framer's position in wire: the next line to look at
  buffer,                \* the framer's buffer: <<>> or the one incomplete line
  bodyDone,              \* reader.read() has returned done
  readerLocked,          \* the body reader is acquired and not released
  sawDone,               \* the framer has read a [DONE] frame
  yielded,               \* the chunks the framer (or Gemini stream) has yielded
  textBuf,               \* textBuf
  toolCallAccumulators,  \* toolCallAccumulators, in insertion order
  streamFinished,        \* streamFinished
  finishReason,          \* finishReason
  finalResponse,         \* finalResponse
  deltas,                \* the texts passed to handlers.onDelta, in call order
  doneArgs,              \* the responses passed to handlers.onDone, in call order
  errorCalls,            \* the errors passed to handlers.onError, in call order
  thrown,                \* the exception a handler has thrown ("" if none)
  failure,               \* the error chat rejected with ("" if none)
  result,                \* the response chat resolved with
  aborted,               \* the caller's AbortController has been aborted
  \* sendStreamingRequestWithFetch alone, at the level of characters
  body,                  \* the characters of the response body
  offset,                \* how many of them reader.read() has returned
  lineBuffer,            \* buffer: the characters after the last line break
  payloads,              \* the payloads handed to safeParseJson, in order
  frames,                \* the values the generator has yielded, in order
  splitLine,             \* a read has ended in the middle of a line
  framerPc,              \* "read", or "ended" once the generator has ended
  \* chat calls running concurrently on one provider instance
  invocations,           \* the locals of each call under way, by call
  \* one request of the OpenAI-compatible provider, up to the response status
  op,                    \* "chat" or "listModels"
  request,               \* the ChatRequest, and whether handlers are given
  thisModel,             \* this.model, set by the constructor
  openaiRequest,         \* the ChatCompletionRequest sent as the body
  httpStatus,            \* the status of the response (0: none yet)
  reqPc,                 \* "start", "converted", "streaming", "resolved", "rejected"
  requestError,          \* the error the call rejected with
  handlerCalls,          \* how often onDelta, onDone and onError were called
  returned,              \* what the call resolved with
  \* truncateToolResult
  toolResult,            \* result: the characters of the tool's output
  truncationConfig,      \* config: charLimit and tokenLimit
  truncatedResult,       \* what truncateToolResult returned
  truncPc,               \* "call" before it has run, "done" after
  \* safeParseJson and attemptJsonRepair
  jsonInput,            \* the text handed to safeParseJson
  jsonRun,               \* what the call of safeParseJson did
  repairs,               \* attemptJsonRepair(x), attemptJsonRepair of that
  jsonPc,                \* "call" before safeParseJson has run, "done" after
  \* LlmProviderError.createWithTip
  tipArgs,               \* the message and the status it is called with
  tipError,              \* the error it returns
  tipPc,                 \* "call" before it has run, "done" after
  \* convertContent
  msgContent,            \* msg.content: a string or Part[]
  openaiContent,         \* what convertContent returned
  contentPc,             \* "call" before it has run, "done" after
  \* createLlmProvider
  factoryConfig,         \* config: the provider named, and whether
                         \* config.gemini.contentGenerator is given
  env,                   \* process.env: the settings createLlmProvider reads
  localServers,          \* how LM Studio and Ollama answer a probe
  providerName,          \* providerName ("": undefined)
  providerConfig,        \* providerConfig: "config" (the caller's), or the
                         \* configuration of the server detected
  probes,                \* the local servers probed, in order
  created,               \* the provider the call resolved with
  factoryError,          \* the error the call rejected with ("" if none)
  factoryPc,             \* "call", "lmstudio", "ollama", "select", "resolved",
                         \* "rejected"
  \* chat without streaming, from the response on
  vendorResponse,        \* the ChatCompletionResponse sendRequest resolved with
  respHandlers,          \* whether chat was given handlers
  llmResponse,           \* the LlmResponse chat resolved with
  respError,             \* the error chat rejected with
  respOnErrors,          \* the errors passed to handlers.onError, in call order
  respPc,                \* "call", then "resolved" or "rejected"
  \* the tools of convertToOpenAIRequest
  requestTools,          \* request.tools: each Tool is its functionDeclarations
  openaiTools,           \* result.tools and result.tool_choice of the body built
  toolsPc,               \* "call" before convertToOpenAIRequest has run, "done" after
  \* tool-call fragments of any content, and the finalization
  received,              \* the tool-call fragments the loop has processed, in order
  accumulators,          \* toolCallAccumulators, in insertion order
  finalized,             \* finalResponse, once built
  finalPc,               \* "loop" while fragments arrive, "done" once the response is built
  \* LlmProviderRegistry
  factories,             \* LlmProviderRegistry.factories: the names registered
  factoryCalled,         \* createLlmProvider has been called
  creation,              \* the last creation asked for, and how it ended
  \* runNonInteractive
  maxSessionTurns,       \* config.getMaxSessionTurns(); negative: no limit
  turnCount,             \* turnCount
  requestsSent,          \* how many times sendMessageStream was called
  toolCallRequests,      \* toolCallRequests.length in the turn under way
  turns,                 \* the number of tool-call requests of each finished turn
  turnPc                 \* "loop", "stream", then "ended" (return) or "failed" (exit)

\* The state of one streaming chat call.
callVars ==
  <<provider, pc, wire, pos, buffer, bodyDone, readerLocked, sawDone, yielded,
    textBuf, toolCallAccumulators, streamFinished, finishReason, finalResponse,
    deltas, doneArgs, errorCalls, thrown, failure, result, aborted>>

\* The state of the framer at the level of characters.
byteVars == <<body, offset, lineBuffer, payloads, frames, splitLine, framerPc>>

\* The locals of the concurrent calls.
concVars == <<invocations>>

\* The state of one request.
reqVars ==
  <<op, request, thisModel, openaiRequest, httpStatus, reqPc, requestError,
    handlerCalls, returned>>

\* The state of one call of truncateToolResult.
truncVars == <<toolResult, truncationConfig, truncatedResult, truncPc>>

\* The state of one call of safeParseJson and of the repair passes.
jsonVars == <<jsonInput, jsonRun, repairs, jsonPc>>

\* The state of one call of createWithTip.
tipVars == <<tipArgs, tipError, tipPc>>

\* The state of one call of convertContent.
contentVars == <<msgContent, openaiContent, contentPc>>

\* The state of one call of createLlmProvider.
factoryVars ==
  <<factoryConfig, env, localServers, providerName, providerConfig, probes,
    created, factoryError, factoryPc>>

\* The state of one non-streaming chat, from the response on.
respVars ==
  <<vendorResponse, respHandlers, llmResponse, respError, respOnErrors,
    respPc>>

\* The tool declarations of one convertToOpenAIRequest.
toolVars ==
  <<requestTools, openaiTools, toolsPc>>

\* The accumulators of one stream and the response built from them.
finalVars ==
  <<received, accumulators, finalized, finalPc>>

\* The provider registry, which all calls share.
registryVars ==
  <<factories, factoryCalled, creation>>

\* The state of one run of runNonInteractive.
turnVars ==
  <<maxSessionTurns, turnCount, requestsSent, toolCallRequests, turns,
    turnPc>>

vars ==
  <<callVars, byteVars, concVars, reqVars, truncVars, jsonVars, tipVars,
    contentVars, factoryVars, respVars, toolVars, finalVars, registryVars,
    turnVars>>

\* What a step of the streaming chat call leaves alone, and what a step of
\* the character-level framer leaves alone.
notCallVars ==
  <<byteVars, concVars, reqVars, truncVars, jsonVars, tipVars, contentVars,
    factoryVars, respVars, toolVars, finalVars, registryVars, turnVars>>
notByteVars ==
  <<callVars, concVars, reqVars, truncVars, jsonVars, tipVars, contentVars,
    factoryVars, respVars, toolVars, finalVars, registryVars, turnVars>>
notConcVars ==
  <<callVars, byteVars, reqVars, truncVars, jsonVars, tipVars, contentVars,
    factoryVars, respVars, toolVars, finalVars, registryVars, turnVars>>
notReqVars ==
  <<callVars, byteVars, concVars, truncVars, jsonVars, tipVars, contentVars,
    factoryVars, respVars, toolVars, finalVars, registryVars, turnVars>>
notTruncVars ==
  <<callVars, byteVars, concVars, reqVars, jsonVars, tipVars, contentVars,
    factoryVars, respVars, toolVars, finalVars, registryVars, turnVars>>
notJsonVars ==
  <<callVars, byteVars, concVars, reqVars, truncVars, tipVars, contentVars,
    factoryVars, respVars, toolVars, finalVars, registryVars, turnVars>>
notTipVars ==
  <<callVars, byteVars, concVars, reqVars, truncVars, jsonVars, contentVars,
    factoryVars, respVars, toolVars, finalVars, registryVars, turnVars>>
notContentVars ==
  <<callVars, byteVars, concVars, reqVars, truncVars, jsonVars, tipVars,
    factoryVars, respVars, toolVars, finalVars, registryVars, turnVars>>
notFactoryVars ==
  <<callVars, byteVars, concVars, reqVars, truncVars, jsonVars, tipVars,
    contentVars, respVars, toolVars, finalVars, registryVars, turnVars>>
notRespVars ==
  <<callVars, byteVars, concVars, reqVars, truncVars, jsonVars, tipVars,
    contentVars, factoryVars, toolVars, finalVars, registryVars, turnVars>>
notToolVars ==
  <<callVars, byteVars, concVars, reqVars, truncVars, jsonVars, tipVars,
    contentVars, factoryVars, respVars, finalVars, registryVars, turnVars>>
notFinalVars ==
  <<callVars, byteVars, concVars, reqVars, truncVars, jsonVars, tipVars,
    contentVars, factoryVars, respVars, toolVars, registryVars, turnVars>>
notRegistryVars ==
  <<callVars, byteVars, concVars, reqVars, truncVars, jsonVars, tipVars,
    contentVars, factoryVars, respVars, toolVars, finalVars, turnVars>>
notTurnVars ==
  <<callVars, byteVars, concVars, reqVars, truncVars, jsonVars, tipVars,
    contentVars, factoryVars, respVars, toolVars, finalVars, registryVars>>

framerVars == <<wire, pos, buffer, bodyDone, readerLocked, sawDone>>
loopVars == <<textBuf, toolCallAccumulators, streamFinished, finishReason>>
handlerVars == <<deltas, doneArgs, errorCalls, thrown>>

Providers == {"openai", "gemini"}

\* What fetch can end with, other than a response with a body.
FetchFailures == {"http", "nobody", "network"}

\* The exception a throwing onDelta raises.
CallbackError == "onDeltaError"

\* No streaming chat call under way.
CallIdle ==
  /\ provider = "openai"
  /\ pc = "idle"
  /\ wire = <<>>
  /\ pos = 1
  /\ buffer = <<>>
  /\ bodyDone = FALSE
  /\ readerLocked = FALSE
  /\ sawDone = FALSE
  /\ yielded = <<>>
  /\ textBuf = <<>>
  /\ toolCallAccumulators = <<>>
  /\ streamFinished = FALSE
  /\ finishReason = ""
  /\ finalResponse = EmptyResponse
  /\ deltas = <<>>
  /\ doneArgs = <<>>
  /\ errorCalls = <<>>
  /\ thrown = ""
  /\ failure = ""
  /\ result = EmptyResponse
  /\ aborted = FALSE

\* The character-level framer not in use.
ByteIdle ==
  /\ body = <<>>
  /\ offset = 0
  /\ lineBuffer = <<>>
  /\ payloads = <<>>
  /\ frames = <<>>
  /\ splitLine = FALSE
  /\ framerPc = "idle"

\* No concurrent calls.
ConcIdle == invocations = <<>>

\* An absent value, an absent error and an absent request body.
NoValue == [kind |-> "none"]
NoError ==
  [name |-> "none", message |-> <<>>, status |-> 0, endpoint |-> <<>>, tip |-> ""]
NoRequest == [model |-> "", stream |-> FALSE]

\* No request under way.
ReqIdle ==
  /\ op = "idle"
  /\ request = [model |-> "", stream |-> FALSE, handlers |-> FALSE]
  /\ thisModel = ""
  /\ openaiRequest = NoRequest
  /\ httpStatus = 0
  /\ reqPc = "idle"
  /\ requestError = NoError
  /\ handlerCalls = [onDelta |-> 0, onDone |-> 0, onError |-> 0]
  /\ returned = NoValue

\* truncateToolResult not in use.
TruncIdle ==
  /\ toolResult = <<>>
  /\ truncationConfig = [charLimit |-> 0, tokenLimit |-> 0]
  /\ truncatedResult = <<>>
  /\ truncPc = "idle"

\* No error thrown.
NoJsonError == [name |-> "", preview |-> <<>>, parserMessage |-> FALSE]

\* safeParseJson not called.
NoJsonRun ==
  [value |-> [ok |-> FALSE, val |-> <<>>], repairApplied |-> FALSE,
   thrown |-> NoJsonError]

\* safeParseJson not in use.
JsonIdle ==
  /\ jsonInput = <<>>
  /\ jsonRun = NoJsonRun
  /\ repairs = <<>>
  /\ jsonPc = "idle"

\* createWithTip not in use.
TipIdle ==
  /\ tipArgs = [message |-> <<>>, status |-> 0]
  /\ tipError = NoError
  /\ tipPc = "idle"

\* convertContent not in use.
ContentIdle ==
  /\ msgContent = [isString |-> TRUE, text |-> "", parts |-> <<>>]
  /\ openaiContent = [isString |-> TRUE, text |-> "", parts |-> <<>>]
  /\ contentPc = "idle"

\* createLlmProvider not in use.
NoProviderCreated == [name |-> "", baseUrl |-> ""]

FactoryIdle ==
  /\ factoryConfig = [provider |-> "", contentGenerator |-> FALSE]
  /\ env = [AIFA_DEFAULT_API |-> "", LLM_PROVIDER |-> "",
            OPENAI_COMPATIBLE_BASE_URL |-> "", OPENAI_API_BASE |-> "",
            GEMINI_API_KEY |-> ""]
  /\ localServers = [lmStudio |-> "refused", ollama |-> "refused"]
  /\ providerName = ""
  /\ providerConfig = "config"
  /\ probes = <<>>
  /\ created = NoProviderCreated
  /\ factoryError = ""
  /\ factoryPc = "idle"

\* No non-streaming response under way.
NoVendorResponse ==
  [hasMessage |-> FALSE, content |-> <<>>, hasToolCalls |-> FALSE,
   tool_calls |-> <<>>]

RespIdle ==
  /\ vendorResponse = NoVendorResponse
  /\ respHandlers = FALSE
  /\ llmResponse = EmptyResponse
  /\ respError = NoJsonError
  /\ respOnErrors = <<>>
  /\ respPc = "idle"

\* No tools in a request body.
NoTools == [present |-> FALSE, tools |-> <<>>, tool_choice |-> ""]

\* convertToOpenAIRequest not at work on tools.
ToolsIdle ==
  /\ requestTools = <<>>
  /\ openaiTools = NoTools
  /\ toolsPc = "idle"

\* No accumulation under way.
FinalIdle ==
  /\ received = <<>>
  /\ accumulators = <<>>
  /\ finalized = EmptyResponse
  /\ finalPc = "idle"

\* No creation asked for yet.
NoCreation == [via |-> "", name |-> "", error |-> ""]

\* The registry not in use.
RegistryIdle ==
  /\ factories = {}
  /\ factoryCalled = FALSE
  /\ creation = NoCreation

\* runNonInteractive not running.
TurnIdle ==
  /\ maxSessionTurns = 0
  /\ turnCount = 0
  /\ requestsSent = 0
  /\ toolCallRequests = 0
  /\ turns = <<>>
  /\ turnPc = "idle"

Init ==
  /\ ByteIdle
  /\ ConcIdle
  /\ ReqIdle
  /\ TruncIdle
  /\ JsonIdle
  /\ TipIdle
  /\ ContentIdle
  /\ FactoryIdle
  /\ RespIdle
  /\ ToolsIdle
  /\ FinalIdle
  /\ RegistryIdle
  /\ TurnIdle
  /\ provider \in Providers
  /\ pc = "start"
  /\ wire = <<>>
  /\ pos = 1
  /\ buffer = <<>>
  /\ bodyDone = FALSE
  /\ readerLocked = FALSE
  /\ sawDone = FALSE
  /\ yielded = <<>>
  /\ textBuf = <<>>
  /\ toolCallAccumulators = <<>>
  /\ streamFinished = FALSE
  /\ finishReason = ""
  /\ finalResponse = EmptyResponse
  /\ deltas = <<>>
  /\ doneArgs = <<>>
  /\ errorCalls = <<>>
  /\ thrown = ""
  /\ failure = ""
  /\ result = EmptyResponse
  /\ aborted = FALSE

\* Faulty variant of Reject: a catch block that reports and does not rethrow.
Reject_Swallow(err) ==
  /\ pc' = "resolved"
  /\ failure' = ""
  /\ errorCalls' = Append(errorCalls, err)

\* An error thrown inside handleStreamingRequest's try block: its catch calls
\* onError and rethrows, and the catch of chat calls onError again and rethrows.
Reject(err) ==
  /\ pc' = "rejected"
  /\ failure' = err
  /\ errorCalls' = errorCalls \o <<err, err>>

\* Where the framer goes once the line before position p is dealt with: on to
\* the next line, back to reader.read(), or, the body being done, to its end.
AfterLine(p, w, closed) ==
  IF p <= Len(w) THEN "lines" ELSE IF closed THEN "finalize" ELSE "read"

(***************************************************************************)
(* sendStreamingRequestWithFetch: the SSE framer, an async generator that  *)
(* runs only while the accumulation loop waits for its next chunk.         *)
(***************************************************************************)
\* Faulty variant of ReleaseLock: the generator without its finally block.
ReleaseLock_Never(locked) == locked

\* finally { reader.releaseLock() }: whether the lock is held after it.
ReleaseLock(locked) == FALSE

\* The first next(): fetch, the status check and body.getReader().
FetchResponse ==
  /\ provider = "openai" /\ pc = "start"
  /\ \/ /\ pc' = "read"
        /\ readerLocked' = TRUE
        /\ UNCHANGED <<failure, errorCalls>>
     \/ /\ \E err \in FetchFailures : Reject(err)
        /\ UNCHANGED readerLocked
  /\ UNCHANGED <<provider, wire, pos, buffer, bodyDone, sawDone, yielded, loopVars,
                 finalResponse, deltas, doneArgs, thrown, result>>
  /\ UNCHANGED <<aborted, notCallVars>>

\* reader.read() returns bytes: the rest of the buffered line, then the lines
\* of batch, the last of them incomplete when cutMid.  The complete lines are
\* split off and the incomplete one stays in the buffer.
ReaderRead ==
  /\ pc = "read"
  /\ \E batch \in SeqsUpTo(Lines, Min(MaxRead, MaxLines - Len(wire) - Len(buffer))),
        cutMid \in BOOLEAN :
       LET complete ==
             buffer \o (IF cutMid THEN SubSeq(batch, 1, Len(batch) - 1) ELSE batch)
       IN
       /\ wire' = wire \o complete
       /\ buffer' = IF cutMid THEN <<batch[Len(batch)]>> ELSE <<>>
       /\ pc' = AfterLine(pos, wire', FALSE)
  /\ UNCHANGED <<provider, pos, bodyDone, readerLocked, sawDone, yielded, loopVars,
                 finalResponse, handlerVars, failure, result>>
  /\ UNCHANGED <<aborted, notCallVars>>

\* reader.read() returns done.  What is left in the buffer is looked at as one
\* more line: the buffered line if the body ended without a newline, or a
\* truncated line that does not parse.  With nothing left the generator ends
\* and its finally block releases the reader.
ReaderDone ==
  /\ pc = "read"
  /\ bodyDone' = TRUE
  /\ IF buffer = <<>>
     THEN /\ pc' = "finalize"
          /\ readerLocked' = ReleaseLock(readerLocked)
          /\ UNCHANGED <<wire, buffer>>
     ELSE /\ \E l \in {buffer[1], GarbageLine} : wire' = Append(wire, l)
          /\ buffer' = <<>>
          /\ pc' = "lines"
          /\ UNCHANGED readerLocked
  /\ UNCHANGED <<provider, pos, sawDone, yielded, loopVars, finalResponse,
                 handlerVars, failure, result>>
  /\ UNCHANGED <<aborted, notCallVars>>

\* reader.read() rejects: the finally block releases the reader and the error
\* leaves the generator and the accumulation loop.
ReaderError ==
  /\ pc = "read"
  /\ readerLocked' = ReleaseLock(readerLocked)
  /\ Reject("read")
  /\ UNCHANGED <<provider, wire, pos, buffer, bodyDone, sawDone, yielded, loopVars,
                 finalResponse, deltas, doneArgs, thrown, result>>
  /\ UNCHANGED <<aborted, notCallVars>>

\* Faulty variant of EndsStream: the [DONE] frame is not recognized.
EndsStream_Never(line) == FALSE

\* if (data === '[DONE]') return
EndsStream(line) == line.kind = "done"

\* The body of "for (const line of lines)" for the line at pos.
FramerLine ==
  /\ pc = "lines"
  /\ pos <= Len(wire)
  /\ pos' = pos + 1
  /\ LET line == wire[pos] IN
     /\ sawDone' = (sawDone \/ line.kind = "done")
     /\ CASE EndsStream(line) ->
              \* return, through the finally block
              /\ readerLocked' = ReleaseLock(readerLocked)
              /\ pc' = "finalize"
              /\ UNCHANGED yielded
         [] line.kind = "chunk" ->
              \* yield chunk
              /\ yielded' = Append(yielded, line)
              /\ pc' = "consume"
              /\ UNCHANGED readerLocked
         [] OTHER ->
              \* continue: not a data line, or a payload that does not parse
              /\ pc' = AfterLine(pos + 1, wire, bodyDone)
              /\ readerLocked' = (pc' # "finalize")
              /\ UNCHANGED yielded
  /\ UNCHANGED <<provider, wire, buffer, bodyDone, loopVars, finalResponse,
                 handlerVars, failure, result>>
  /\ UNCHANGED <<aborted, notCallVars>>

(***************************************************************************)
(* handleStreamingRequest of the OpenAI-compatible provider.               *)
(***************************************************************************)
\* Faulty variant of BreaksLoop: the loop without its break.
BreaksLoop_Never(finished) == FALSE

\* Whether the loop stops after the chunk: if (streamFinished) break
BreaksLoop(finished) == finished

\* Faulty variant of PushText: unshift in place of push.
PushText_Unshift(buf, content) == <<content>> \o buf

\* textBuf.push(delta.content)
PushText(buf, content) == Append(buf, content)

\* Faulty variant of onDone: the handler is called with an empty response.
onDone_Empty(calls, response) == Append(calls, EmptyResponse)

\* handlers.onDone?.(finalResponse): the calls of onDone after this one.
onDone(calls, response) == Append(calls, response)

\* The body of "for await (const chunk of stream)" for the chunk just yielded;
\* onDelta returns, or throws when throws.
ConsumeChunk ==
  /\ pc = "consume"
  /\ LET chunk == yielded[Len(yielded)]
         finished == chunk.finish_reason # ""
         resume == AfterLine(pos, wire, bodyDone)
     IN
     IF ~chunk.hasChoice
     THEN \* if (!chunk.choices?.[0]) continue
          /\ pc' = resume
          /\ readerLocked' = (resume # "finalize")
          /\ UNCHANGED <<loopVars, deltas, thrown, failure, errorCalls>>
     ELSE
       /\ streamFinished' = finished
       /\ finishReason' = chunk.finish_reason
       /\ textBuf' = IF chunk.content # <<>> THEN PushText(textBuf, chunk.content)
                     ELSE textBuf
       /\ deltas' = IF chunk.content # <<>> THEN Append(deltas, chunk.content)
                    ELSE deltas
       /\ \E throws \in {FALSE, chunk.content # <<>>} :
            IF throws
            THEN \* the exception leaves the loop, which ends the generator
                 /\ thrown' = CallbackError
                 /\ readerLocked' = ReleaseLock(readerLocked)
                 /\ Reject(CallbackError)
                 /\ UNCHANGED toolCallAccumulators
            ELSE /\ toolCallAccumulators' =
                      AccumulateAll(toolCallAccumulators, chunk.tool_calls)
                 /\ pc' = IF BreaksLoop(finished) THEN "finalize" ELSE resume
                 /\ readerLocked' = (pc' # "finalize")
                 /\ UNCHANGED <<thrown, failure, errorCalls>>
  /\ UNCHANGED <<provider, wire, pos, buffer, bodyDone, sawDone, yielded,
                 finalResponse, doneArgs, result>>
  /\ UNCHANGED <<aborted, notCallVars>>

\* After the loop: build the final response, call onDone, return it.  An
\* exception of the tool-call conversion would go to the catch block.
Finalize ==
  /\ pc = "finalize"
  /\ IF \E k \in 1..Len(toolCallAccumulators) :
          ~ParseToolArgs(toolCallAccumulators[k].argsSrc).ok
     THEN /\ Reject("parse")
          /\ UNCHANGED <<finalResponse, doneArgs, result>>
     ELSE /\ \E gens \in GenChoices(Len(toolCallAccumulators)) :
               finalResponse' = BuildResponse(textBuf, toolCallAccumulators, gens)
          /\ doneArgs' = onDone(doneArgs, finalResponse')
          /\ result' = finalResponse'
          /\ pc' = "resolved"
          /\ UNCHANGED <<failure, errorCalls>>
  /\ UNCHANGED <<provider, framerVars, yielded, loopVars, deltas, thrown>>
  /\ UNCHANGED <<aborted, notCallVars>>

(***************************************************************************)
(* handleStreamingRequest of the Gemini adapter.                           *)
(***************************************************************************)
\* await contentGenerator.generateContentStream(...)
GeminiOpen ==
  /\ provider = "gemini" /\ pc = "start"
  /\ \/ /\ pc' = "gread"
        /\ UNCHANGED <<failure, errorCalls>>
     \/ Reject("stream")
  /\ UNCHANGED <<provider, framerVars, yielded, loopVars, finalResponse,
                 deltas, doneArgs, thrown, result>>
  /\ UNCHANGED <<aborted, notCallVars>>

\* The body of "for await (const chunk of stream)" for the next chunk.
GeminiChunk ==
  /\ pc = "gread"
  /\ Len(yielded) < MaxLines
  /\ \E chunk \in GeminiChunks :
     \E gens \in GenChoices(Len(FunctionCallParts(chunk.parts))) :
       LET converted == convertGeminiResponse(chunk, gens) IN
       /\ yielded' = Append(yielded, chunk)
       /\ deltas' = IF converted.hasText THEN Append(deltas, converted.text)
                    ELSE deltas
       /\ \E throws \in {FALSE, converted.hasText} :
            IF throws
            THEN /\ thrown' = CallbackError
                 /\ Reject(CallbackError)
                 /\ UNCHANGED finalResponse
            ELSE /\ finalResponse' =
                      [finalResponse EXCEPT
                         !.hasToolCalls = IF converted.hasToolCalls THEN TRUE ELSE @,
                         !.toolCalls = IF converted.hasToolCalls
                                       THEN converted.toolCalls ELSE @,
                         !.hasText = IF converted.hasText THEN TRUE ELSE @,
                         !.text = IF converted.hasText THEN @ \o converted.text
                                  ELSE @]
                 /\ UNCHANGED <<pc, thrown, failure, errorCalls>>
  /\ UNCHANGED <<provider, framerVars, loopVars, doneArgs, result>>
  /\ UNCHANGED <<aborted, notCallVars>>

\* The stream ends: onDone(finalResponse), return finalResponse.
GeminiEnd ==
  /\ pc = "gread"
  /\ doneArgs' = Append(doneArgs, finalResponse)
  /\ result' = finalResponse
  /\ pc' = "resolved"
  /\ UNCHANGED <<provider, framerVars, yielded, loopVars, finalResponse, deltas,
                 errorCalls, thrown, failure>>
  /\ UNCHANGED <<aborted, notCallVars>>

\* The stream throws while it is iterated.
GeminiError ==
  /\ pc = "gread"
  /\ Reject("stream")
  /\ UNCHANGED <<provider, framerVars, yielded, loopVars, finalResponse, deltas,
                 doneArgs, thrown, result>>
  /\ UNCHANGED <<aborted, notCallVars>>

\* The caller aborts its AbortController while the call is under way.  The
\* provider is given no signal: chat takes a ChatRequest and the handlers,
\* and fetch is called without one.
Abort ==
  /\ pc \in {"start", "read", "lines", "consume", "finalize", "gread"}
  /\ ~aborted
  /\ aborted' = TRUE
  /\ UNCHANGED <<provider, pc, framerVars, yielded, loopVars, finalResponse,
                 handlerVars, failure, result, notCallVars>>

Next ==
  \/ FetchResponse
  \/ ReaderRead
  \/ ReaderDone
  \/ ReaderError
  \/ FramerLine
  \/ ConsumeChunk
  \/ Finalize
  \/ GeminiOpen
  \/ GeminiChunk
  \/ GeminiEnd
  \/ GeminiError

Spec == Init /\ [][Next]_vars

\* A call whose caller may abort while it is under way.
AbortNext ==
  \/ Abort
  \/ Next

AbortSpec == Init /\ [][AbortNext]_vars

(***************************************************************************)
(* sendStreamingRequestWithFetch at the level of characters: the body is   *)
(* a text that reader.read() returns piece by piece, cut anywhere, and     *)
(* the generator is resumed as long as it yields.                          *)
(***************************************************************************)
\* Most lines of a response body.
MaxFrames == 2

NL == "\n"
\* 'data: '
DataPrefix == <<"d", LETTER, "t", LETTER, CL, SP>>
\* '[DONE]'
DoneToken == <<LS, "D", "O", "N", "E", RS>>

\* The lines a body is made of: two payloads that parse, one that does not
\* parse even after repair, the end marker, a blank line and a data line
\* that starts with a space.
FrameTexts ==
  { DataPrefix \o ArgOpen \o ArgClose,
    DataPrefix \o <<DIGIT>>,
    DataPrefix \o <<RB>>,
    DataPrefix \o DoneToken,
    <<>>,
    <<SP>> \o DataPrefix \o <<DIGIT>> }

\* The bodies: up to MaxFrames lines, each ended by a line break, the last
\* one ended by a line break or not.
Bodies ==
  UNION { UNION { LET whole == Concat([k \in 1..n |-> ls[k] \o <<NL>>])
                  IN {whole, SubSeq(whole, 1, Len(whole) - 1)}
                  : ls \in [1..n -> FrameTexts] }
          : n \in 0..MaxFrames }

RECURSIVE FirstBreak(_, _)
\* The index of the first line break of s at or after i (0: none).
FirstBreak(s, i) ==
  IF i > Len(s) THEN 0 ELSE IF s[i] = NL THEN i ELSE FirstBreak(s, i + 1)

RECURSIVE SplitLines(_)
\* String.prototype.split('\n')
SplitLines(s) ==
  LET k == FirstBreak(s, 1) IN
  IF k = 0 THEN <<s>>
  ELSE <<SubSeq(s, 1, k - 1)>> \o SplitLines(SubSeq(s, k + 1, Len(s)))

\* String.prototype.startsWith
StartsWith(s, prefix) ==
  Len(s) >= Len(prefix) /\ SubSeq(s, 1, Len(prefix)) = prefix

\* if (line.trim() === '' || !line.startsWith('data: ')) continue
IsDataLine(line) == ~(Trim(line) = <<>> \/ ~StartsWith(line, DataPrefix))

\* line.slice(6).trim()
PayloadOf(line) == Trim(SubSeq(line, Len(DataPrefix) + 1, Len(line)))

\* What the generator has done so far: the payloads parsed, the values
\* yielded, and whether it has returned at the end marker.
FramerState(p, f, r) == [payloads |-> p, frames |-> f, returned |-> r]

RECURSIVE FrameLines(_, _)
\* for (const line of lines) { ... }, from the state st on
FrameLines(lines, st) ==
  IF lines = <<>> \/ st.returned THEN st
  ELSE LET line == Head(lines)
           data == PayloadOf(line)
           value == safeParseJson(data)
       IN FrameLines(Tail(lines),
            IF ~IsDataLine(line) THEN st
            ELSE IF data = DoneToken THEN [st EXCEPT !.returned = TRUE]
            ELSE FramerState(Append(st.payloads, data),
                             IF value.ok THEN Append(st.frames, value.val)
                             ELSE st.frames,
                             FALSE))

\* Faulty variant of KeepIncomplete: the incomplete line is not kept.
KeepIncomplete_Dropped(lines) == <<>>

\* buffer = lines.pop() || ''
KeepIncomplete(lines) == lines[Len(lines)]

FramerInit ==
  /\ CallIdle
  /\ TipIdle
  /\ JsonIdle
  /\ ConcIdle
  /\ ReqIdle
  /\ TruncIdle
  /\ ContentIdle
  /\ FactoryIdle
  /\ RespIdle
  /\ ToolsIdle
  /\ FinalIdle
  /\ RegistryIdle
  /\ TurnIdle
  /\ body \in Bodies
  /\ offset = 0
  /\ lineBuffer = <<>>
  /\ payloads = <<>>
  /\ frames = <<>>
  /\ splitLine = FALSE
  /\ framerPc = "read"

\* reader.read() returns the next n characters: one turn of the while loop.
FramerRead ==
  /\ framerPc = "read"
  /\ offset < Len(body)
  /\ \E n \in 1..(Len(body) - offset) :
       LET text == lineBuffer \o SubSeq(body, offset + 1, offset + n)
           lines == SplitLines(text)
           st == FrameLines(SubSeq(lines, 1, Len(lines) - 1),
                            FramerState(payloads, frames, FALSE))
       IN /\ offset' = offset + n
          /\ lineBuffer' = KeepIncomplete(lines)
          /\ payloads' = st.payloads
          /\ frames' = st.frames
          /\ splitLine' = (splitLine \/ (~st.returned /\ lines[Len(lines)] # <<>>))
          /\ framerPc' = IF st.returned THEN "ended" ELSE "read"
  /\ UNCHANGED <<body, notByteVars>>

\* reader.read() returns done: what is left in the buffer is looked at,
\* trimmed, and the generator ends.
FramerEnd ==
  /\ framerPc = "read"
  /\ offset = Len(body)
  /\ LET rest == Trim(lineBuffer)
         st == IF rest = <<>> THEN FramerState(payloads, frames, FALSE)
               ELSE FrameLines(SplitLines(rest), FramerState(payloads, frames, FALSE))
     IN /\ payloads' = st.payloads
        /\ frames' = st.frames
  /\ framerPc' = "ended"
  /\ UNCHANGED <<body, offset, lineBuffer, splitLine, notByteVars>>

FramerNext ==
  \/ FramerRead
  \/ FramerEnd

FramerSpec == FramerInit /\ [][FramerNext]_vars

(***************************************************************************)
(* Several streaming chat calls on one provider instance.  The instance    *)
(* holds apiKey, baseUrl, model and transport, set by the constructor and  *)
(* never written again; textBuf, toolCallAccumulators, streamFinished and  *)
(* the framer's buffer are locals of each invocation.                      *)
(***************************************************************************)
\* Most lines of the body of one concurrent call.
MaxCallLines == 2

CallIds == {1, 2}

\* The lines a concurrent call can receive.
CallLines ==
  { Chunk(<<"H">>, <<>>, ""),
    Chunk(<<>>, <<Frag(0, "call_A", "search", ArgOpen \o ArgClose)>>, ""),
    Chunk(<<"i">>, <<Frag(1, "call_B", "get_time", <<>>)>>, "stop") }

\* The locals of an invocation, before its first read; body is what the
\* server will send to it.
NewCall(lines) ==
  [pc |-> "read", body |-> lines, next |-> 1, buffer |-> <<>>,
   textBuf |-> <<>>, toolCallAccumulators |-> <<>>, streamFinished |-> FALSE,
   deltas |-> <<>>, result |-> EmptyResponse]

\* The loop body of handleStreamingRequest on the locals st, for one chunk.
ConsumeInto(st, chunk) ==
  IF ~chunk.hasChoice THEN st
  ELSE [st EXCEPT
          !.streamFinished = (chunk.finish_reason # ""),
          !.textBuf = IF chunk.content # <<>> THEN PushText(@, chunk.content) ELSE @,
          !.deltas = IF chunk.content # <<>> THEN Append(@, chunk.content) ELSE @,
          !.toolCallAccumulators = AccumulateAll(@, chunk.tool_calls)]

\* Faulty variant of Frame: the buffers are fields of the instance.
Frame_Shared(c) == 1

\* The invocation whose locals a step of call c reads and writes.
Frame(c) == c

\* The accumulation state call c works on.
Locals(c) ==
  [invocations[c] EXCEPT
     !.buffer = invocations[Frame(c)].buffer,
     !.textBuf = invocations[Frame(c)].textBuf,
     !.toolCallAccumulators = invocations[Frame(c)].toolCallAccumulators,
     !.streamFinished = invocations[Frame(c)].streamFinished]

\* The calls after call c has stored st: its position in its own record,
\* its buffers in its frame.
Store(c, st) ==
  [d \in CallIds |->
     LET own == IF d = c
                THEN [invocations[d] EXCEPT !.pc = st.pc, !.next = st.next,
                                      !.deltas = st.deltas, !.result = st.result]
                ELSE invocations[d]
     IN IF d = Frame(c)
        THEN [own EXCEPT !.buffer = st.buffer, !.textBuf = st.textBuf,
                         !.toolCallAccumulators = st.toolCallAccumulators,
                         !.streamFinished = st.streamFinished]
        ELSE own]

ConcInit ==
  /\ CallIdle
  /\ TipIdle
  /\ JsonIdle
  /\ ByteIdle
  /\ ReqIdle
  /\ TruncIdle
  /\ ContentIdle
  /\ FactoryIdle
  /\ RespIdle
  /\ ToolsIdle
  /\ FinalIdle
  /\ RegistryIdle
  /\ TurnIdle
  /\ \E bodies \in [CallIds -> {<<>>} \cup SeqsUpTo(CallLines, MaxCallLines)] :
       invocations = [c \in CallIds |-> NewCall(bodies[c])]

\* reader.read() of call c returns: the line kept in the buffer is completed,
\* or the next line arrives, whole or cut; a complete line is yielded and
\* goes through the loop body.
CallRead(c) ==
  /\ invocations[c].pc = "read"
  /\ LET st == Locals(c) IN
     IF st.buffer # <<>>
     THEN LET after == ConsumeInto([st EXCEPT !.buffer = <<>>], st.buffer[1]) IN
          invocations' = Store(c, [after EXCEPT
                               !.pc = IF BreaksLoop(after.streamFinished)
                                      THEN "finalize" ELSE "read"])
     ELSE /\ st.next <= Len(st.body)
          /\ \E cut \in BOOLEAN :
               LET line == st.body[st.next]
                   taken == [st EXCEPT !.next = @ + 1]
                   after == ConsumeInto(taken, line)
               IN invocations' = Store(c,
                    IF cut THEN [taken EXCEPT !.buffer = <<line>>]
                    ELSE [after EXCEPT
                            !.pc = IF BreaksLoop(after.streamFinished)
                                   THEN "finalize" ELSE "read"])
  /\ UNCHANGED notConcVars

\* reader.read() of call c returns done with nothing left in the buffer.
CallBodyEnd(c) ==
  /\ invocations[c].pc = "read"
  /\ Locals(c).buffer = <<>>
  /\ invocations[c].next > Len(invocations[c].body)
  /\ invocations' = Store(c, [Locals(c) EXCEPT !.pc = "finalize"])
  /\ UNCHANGED notConcVars

\* Call c builds its response out of its buffers and returns it.
CallFinalize(c) ==
  /\ invocations[c].pc = "finalize"
  /\ LET st == Locals(c) IN
     \E gens \in GenChoices(Len(st.toolCallAccumulators)) :
       invocations' = Store(c, [st EXCEPT
                            !.pc = "resolved",
                            !.result = BuildResponse(st.textBuf,
                                                     st.toolCallAccumulators, gens)])
  /\ UNCHANGED notConcVars

ConcNext ==
  \E c \in CallIds :
    \/ CallRead(c)
    \/ CallBodyEnd(c)
    \/ CallFinalize(c)

ConcSpec == ConcInit /\ [][ConcNext]_vars

(***************************************************************************)
(* One request of the OpenAI-compatible provider, chat or listModels, from *)
(* the conversion of the ChatRequest to the status of the response.  What  *)
(* a streaming chat does with the body of a successful response is the     *)
(* subject of Spec; here it is one or more onDelta calls and an onDone.    *)
(***************************************************************************)
\* this.baseUrl, and the two endpoints; a URL is the pair of its parts.
BaseUrl == "http://localhost:1234/v1"
ChatEndpoint == "/chat/completions"
ModelsEndpoint == "/models"
Url(base, endpoint) == <<base, endpoint>>

\* Model identifiers ("": the request names none).
ModelNames == {"test-model", "vision-model"}

\* Statuses a server answers with, and the status texts that go with them
\* ("": none, as over HTTP/2).
Statuses == {200, 299, 300, 401, 404, 500}
StatusTexts == {"", "Unauthorized"}

\* Response.ok
ResponseOk(status) == status \in 200..299

\* The words createWithTip looks for.
TipWords == {"model", "not", "connection", "ECONNREFUSED"}

\* A message is the sequence of the pieces it is put together from.  The
\* words createWithTip looks for that a piece contains, character for
\* character (the search tells upper case from lower case).
WordsOf(piece) ==
  {word \in TipWords :
     \E i \in 1..(Len(piece) - Len(word) + 1) :
        SubSeq(piece, i, i + Len(word) - 1) = word}

\* String.prototype.includes, for these words.
Includes(message, word) == \E k \in 1..Len(message) : word \in WordsOf(message[k])

\* The tip createWithTip picks: by status first, then by what the message
\* mentions.
TipFor(message, status) ==
  CASE status = 401 -> "Check your API key"
    [] status = 404 -> "Verify the API endpoint URL"
    [] status = 500 -> "Server error"
    [] Includes(message, "model") /\ Includes(message, "not") ->
         "Ensure a model is loaded"
    [] Includes(message, "connection") \/ Includes(message, "ECONNREFUSED") ->
         "Check that your LLM server is running"
    [] OTHER -> ""

\* Faulty variant of createWithTip: the status is not handed on.
createWithTip_NoStatus(message, status, endpoint) ==
  [name |-> "LlmProviderError", message |-> message, status |-> 0,
   endpoint |-> endpoint, tip |-> TipFor(message, status)]

\* LlmProviderError.createWithTip; status 0 and endpoint <<>> are undefined.
createWithTip(message, status, endpoint) ==
  [name |-> "LlmProviderError", message |-> message, status |-> status,
   endpoint |-> endpoint, tip |-> TipFor(message, status)]

\* response.statusText || `HTTP error ${response.status}`
StatusMessage(statusText, status) ==
  IF statusText # "" THEN <<statusText>> ELSE <<"HTTP error ", ToString(status)>>

\* The error fetch rejects with when the server cannot be reached.
FetchFailed ==
  [name |-> "TypeError", message |-> <<"fetch failed">>, status |-> 0,
   endpoint |-> <<>>, tip |-> ""]

\* convertToOpenAIRequest: the body of the request, as far as the model and
\* the stream flag go.
convertToOpenAIRequest(req, model) == [model |-> model, stream |-> req.stream]

\* if (request.stream && handlers)
IsStreaming(req) == req.stream /\ req.handlers

\* What a successful chat and a successful listModels can return.
ChatResponses == {EmptyResponse, Response(TRUE, <<"H">>, FALSE, <<>>)}
ModelLists == {<<>>, <<"test-model">>, <<"test-model", "vision-model">>}

ReqInit ==
  /\ CallIdle
  /\ TipIdle
  /\ JsonIdle
  /\ ByteIdle
  /\ ConcIdle
  /\ TruncIdle
  /\ ContentIdle
  /\ FactoryIdle
  /\ RespIdle
  /\ ToolsIdle
  /\ FinalIdle
  /\ RegistryIdle
  /\ TurnIdle
  /\ op \in {"chat", "listModels"}
  /\ thisModel \in ModelNames
  /\ IF op = "chat"
     THEN request \in [model : ModelNames \cup {""}, stream : BOOLEAN, handlers : BOOLEAN]
     ELSE request = [model |-> "", stream |-> FALSE, handlers |-> FALSE]
  /\ openaiRequest = NoRequest
  /\ httpStatus = 0
  /\ reqPc = "start"
  /\ requestError = NoError
  /\ handlerCalls = [onDelta |-> 0, onDone |-> 0, onError |-> 0]
  /\ returned = NoValue

\* chat: const openaiRequest = this.convertToOpenAIRequest(request)
ConvertRequest ==
  /\ op = "chat" /\ reqPc = "start"
  /\ openaiRequest' = convertToOpenAIRequest(request, thisModel)
  /\ reqPc' = "converted"
  /\ UNCHANGED <<op, request, thisModel, httpStatus, requestError, handlerCalls,
                 returned, notReqVars>>

\* The catch blocks a chat error goes through: the one of
\* handleStreamingRequest on the streaming path, then the one of chat; each
\* calls handlers?.onError and rethrows.
ChatRejects(err) ==
  /\ reqPc' = "rejected"
  /\ requestError' = err
  /\ handlerCalls' =
       [handlerCalls EXCEPT !.onError =
          IF ~request.handlers THEN @
          ELSE IF IsStreaming(request) THEN @ + 2 ELSE @ + 1]
  /\ returned' = NoValue

\* chat: fetch answers with a status, or fails.  A status that is not ok
\* throws; an ok one gives the response (sendRequest) or opens the stream
\* (sendStreamingRequestWithFetch).
ChatFetch ==
  /\ op = "chat" /\ reqPc = "converted"
  /\ \/ \E status \in Statuses, statusText \in StatusTexts :
          /\ httpStatus' = status
          /\ IF ~ResponseOk(status)
             THEN ChatRejects(createWithTip(StatusMessage(statusText, status), status,
                                            Url(BaseUrl, ChatEndpoint)))
             ELSE IF IsStreaming(request)
             THEN /\ reqPc' = "streaming"
                  /\ UNCHANGED <<requestError, handlerCalls, returned>>
             ELSE /\ \E response \in ChatResponses : returned' = response
                  /\ reqPc' = "resolved"
                  /\ UNCHANGED <<requestError, handlerCalls>>
     \/ /\ ChatRejects(FetchFailed)
        /\ UNCHANGED httpStatus
  /\ UNCHANGED <<op, request, thisModel, openaiRequest, notReqVars>>

\* The streaming path, after an ok status: a text fragment goes to onDelta.
StreamDelta ==
  /\ reqPc = "streaming"
  /\ handlerCalls.onDelta < MaxLines
  /\ handlerCalls' = [handlerCalls EXCEPT !.onDelta = @ + 1]
  /\ UNCHANGED <<op, request, thisModel, openaiRequest, httpStatus, reqPc,
                 requestError, returned, notReqVars>>

\* The streaming path, at its end: onDone(finalResponse), return it.
StreamDone ==
  /\ reqPc = "streaming"
  /\ handlerCalls' = [handlerCalls EXCEPT !.onDone = @ + 1]
  /\ returned' = IF handlerCalls.onDelta = 0 THEN EmptyResponse
                 ELSE Response(TRUE, Repeat("H", handlerCalls.onDelta), FALSE, <<>>)
  /\ reqPc' = "resolved"
  /\ UNCHANGED <<op, request, thisModel, openaiRequest, httpStatus, requestError,
                 notReqVars>>

\* listModels: sendRequest('/models', {}, 'GET') and the mapping of its data.
\* An LlmProviderError is rethrown as it is, anything else is wrapped.
ListModels ==
  /\ op = "listModels" /\ reqPc = "start"
  /\ \/ \E status \in Statuses, statusText \in StatusTexts :
          /\ httpStatus' = status
          /\ IF ~ResponseOk(status)
             THEN /\ requestError' =
                       createWithTip(StatusMessage(statusText, status), status,
                                     Url(BaseUrl, ModelsEndpoint))
                  /\ reqPc' = "rejected"
                  /\ returned' = NoValue
             ELSE /\ \E models \in ModelLists : returned' = models
                  /\ reqPc' = "resolved"
                  /\ UNCHANGED requestError
     \/ /\ requestError' = createWithTip(<<"Failed to list models: ", "fetch failed">>, 0,
                                         Url("", ModelsEndpoint))
        /\ reqPc' = "rejected"
        /\ returned' = NoValue
        /\ UNCHANGED httpStatus
  /\ UNCHANGED <<op, request, thisModel, openaiRequest, handlerCalls, notReqVars>>

ReqNext ==
  \/ ConvertRequest
  \/ ChatFetch
  \/ StreamDelta
  \/ StreamDone
  \/ ListModels

ReqSpec == ReqInit /\ [][ReqNext]_vars

(***************************************************************************)
(* truncateToolResult of errorHandling.ts.                                 *)
(***************************************************************************)
\* Longest tool result, and largest limits, of the configurations tried.
MaxResultLen == 12
MaxCharLimit == 6
MaxTokenLimit == 2
\* The least limit tried: the limits are parsed integers, which the code
\* does not check, so a limit can be negative.
MinLimit == -1

\* DEFAULT_TRUNCATION_CONFIG, with no environment variable set.
DefaultTokenLimit == 1000
DefaultCharLimit == 4000
\* The length of the result of the truncation tests: 'x'.repeat(5000)
TestResultLen == 5000

DecimalDigits == <<"0", "1", "2", "3", "4", "5", "6", "7", "8", "9">>

RECURSIVE NumberText(_)
\* `${n}` for a non-negative integer: its decimal digits.
NumberText(n) ==
  IF n < 10 THEN <<DecimalDigits[n + 1]>>
  ELSE NumberText(n \div 10) \o <<DecimalDigits[(n % 10) + 1]>>

\* A text of n characters in which neighbours differ.
TextOfLen(n) == [k \in 1..n |-> DecimalDigits[(k % 10) + 1]]

\* The pieces of `\n\n[...truncated ${c} characters (~${t} tokens)]`
AnnotationHead ==
  <<NL, NL, LS, ".", ".", ".", "t", "r", "u", "n", "c", "a", "t", "e", "d", SP>>
AnnotationMid ==
  <<SP, "c", "h", "a", "r", "a", "c", "t", "e", "r", "s", SP, "(", "~">>
AnnotationTail == <<SP, "t", "o", "k", "e", "n", "s", ")", RS>>

\* Math.ceil(chars / 4)
EstimateTokens(chars) == (chars + 3) \div 4

\* Faulty variant of MaxChars: the larger of the two limits.
MaxChars_Larger(config) ==
  IF config.charLimit >= config.tokenLimit * 4 THEN config.charLimit
  ELSE config.tokenLimit * 4

\* Math.min(config.charLimit, config.tokenLimit * 4)
MaxChars(config) == Min(config.charLimit, config.tokenLimit * 4)

truncateToolResult(res, config) ==
  IF res = <<>> THEN res
  ELSE IF Len(res) <= config.charLimit /\ EstimateTokens(Len(res)) <= config.tokenLimit
  THEN res
  ELSE IF Len(res) <= MaxChars(config) THEN res
  ELSE LET \* substring(0, maxChars): a negative end counts as 0
           truncated == SubSeq(res, 1, MaxChars(config))
           truncatedChars == Len(res) - MaxChars(config)
           truncatedTokens == EstimateTokens(truncatedChars)
       IN truncated \o AnnotationHead \o NumberText(truncatedChars)
            \o AnnotationMid \o NumberText(truncatedTokens) \o AnnotationTail

\* The calls tried: every length and every pair of limits up to the bounds,
\* and the result of the truncation tests under the default limits.
TruncInit ==
  /\ CallIdle
  /\ TipIdle
  /\ JsonIdle
  /\ ByteIdle
  /\ ConcIdle
  /\ ReqIdle
  /\ ContentIdle
  /\ FactoryIdle
  /\ RespIdle
  /\ ToolsIdle
  /\ FinalIdle
  /\ RegistryIdle
  /\ TurnIdle
  /\ \/ /\ \E n \in 0..MaxResultLen : toolResult = TextOfLen(n)
        /\ truncationConfig \in [charLimit : MinLimit..MaxCharLimit,
                                 tokenLimit : MinLimit..MaxTokenLimit]
     \/ /\ toolResult = TextOfLen(TestResultLen)
        /\ truncationConfig = [charLimit |-> DefaultCharLimit,
                               tokenLimit |-> DefaultTokenLimit]
  /\ truncatedResult = <<>>
  /\ truncPc = "call"

Truncate ==
  /\ truncPc = "call"
  /\ truncatedResult' = truncateToolResult(toolResult, truncationConfig)
  /\ truncPc' = "done"
  /\ UNCHANGED <<toolResult, truncationConfig, notTruncVars>>

TruncNext == Truncate

TruncSpec == TruncInit /\ [][TruncNext]_vars

(***************************************************************************)
(* safeParseJson and attemptJsonRepair of errorHandling.ts, called on      *)
(* their own.                                                              *)
(***************************************************************************)
\* Longest text of the texts tried exhaustively.
MaxJsonLen == 4
\* jsonString.length > 100: the longest preview given whole.
PreviewLimit == 100
\* 'x'.repeat(200) of the preview test.
LongInputLen == 200

\* '{"name": "test", "value": 123}', in the characters of the model: {"a": "a", "aa": 11}
ValidDocument ==
  <<LB, QT, LETTER, QT, CL, SP, QT, LETTER, QT, CM, SP, QT, LETTER, LETTER,
    QT, CL, SP, DIGIT, DIGIT, RB>>

\* '{"name": "test", "value": 123', in the characters of the model: {"a": "a", "aa": 11
MissingBrace ==
  <<LB, QT, LETTER, QT, CL, SP, QT, LETTER, QT, CM, SP, QT, LETTER, LETTER,
    QT, CL, SP, DIGIT, DIGIT>>

\* '{"outer": {"inner": {"deep": "value"', in the characters of the model: {"a": {"a": {"a": "a"
MissingBraces ==
  <<LB, QT, LETTER, QT, CL, SP, LB, QT, LETTER, QT, CL, SP, LB, QT, LETTER,
    QT, CL, SP, QT, LETTER, QT>>

\* '[1, 2, 3', in the characters of the model: [1, 1, 1
MissingBracket ==
  <<LS, DIGIT, CM, SP, DIGIT, CM, SP, DIGIT>>

\* '{"name": "test", "value": 123,}', in the characters of the model: {"a": "a", "aa": 11,}
TrailingComma ==
  <<LB, QT, LETTER, QT, CL, SP, QT, LETTER, QT, CM, SP, QT, LETTER, LETTER,
    QT, CL, SP, DIGIT, DIGIT, CM, RB>>

\* '[1, 2, 3,]', in the characters of the model: [1, 1, 1,]
ArrayTrailingComma ==
  <<LS, DIGIT, CM, SP, DIGIT, CM, SP, DIGIT, CM, RS>>

\* '{name: "test", value: 123}', in the characters of the model: {a: "a", aa: 11}
UnquotedNames ==
  <<LB, LETTER, CL, SP, QT, LETTER, QT, CM, SP, LETTER, LETTER, CL, SP,
    DIGIT, DIGIT, RB>>

\* '{name: "test", nested: {value: 123, items: [1, 2, 3,', in the characters of the model: {a: "a", aa: {a: 11, aa: [1, 1, 1,
ComplexCase ==
  <<LB, LETTER, CL, SP, QT, LETTER, QT, CM, SP, LETTER, LETTER, CL, SP, LB,
    LETTER, CL, SP, DIGIT, DIGIT, CM, SP, LETTER, LETTER, CL, SP, LS,
    DIGIT, CM, SP, DIGIT, CM, SP, DIGIT, CM>>

\* 'this is not json at all', in the characters of the model: a a a a a
NotJson ==
  <<LETTER, SP, LETTER, SP, LETTER, SP, LETTER, SP, LETTER>>

\* an array cut short after a string that holds ',,}', in the characters of the model: [",,}"
CommasInString ==
  <<LS, QT, CM, CM, RB, QT>>

\* The inputs of the safeParseJson tests.
TestInputs ==
  {ValidDocument, MissingBrace, MissingBraces, MissingBracket, TrailingComma,
   ArrayTrailingComma, UnquotedNames, ComplexCase, NotJson}

\* Texts that do not parse, of the length of the preview test and of the
\* lengths around the limit of the preview.
LongInputs ==
  {Repeat(LETTER, n) : n \in {PreviewLimit - 1, PreviewLimit, PreviewLimit + 1,
                              LongInputLen}}

\* The texts tried: every text of at most MaxJsonLen characters, the inputs
\* of the tests, the long ones, and one with commas inside a string.
JsonInputs ==
  UNION {[1..k -> JsonChars] : k \in 0..MaxJsonLen}
    \cup TestInputs \cup LongInputs \cup {CommasInString}

Ellipsis == <<".", ".", ".">>

\* Faulty variant of Preview: the whole text, however long.
Preview_Whole(jsonString) == jsonString

\* jsonString.length > 100 ? jsonString.substring(0, 100) + '...' : jsonString
Preview(jsonString) ==
  IF Len(jsonString) > PreviewLimit
  THEN SubSeq(jsonString, 1, PreviewLimit) \o Ellipsis
  ELSE jsonString

\* throw new Error(`Failed to parse JSON after repair attempts. Original
\* error: ${initialError.message}. Preview: "${preview}"`)
ParseFailure(jsonString) ==
  [name |-> "Error", preview |-> Preview(jsonString), parserMessage |-> TRUE]

\* One call of safeParseJson: what it returns, whether it called
\* attemptJsonRepair, and what it throws.
SafeParseRun(jsonString) ==
  IF JsonParse(jsonString).ok
  THEN [value |-> JsonParse(jsonString), repairApplied |-> FALSE,
        thrown |-> NoJsonError]
  ELSE IF JsonParse(attemptJsonRepair(jsonString)).ok
  THEN [value |-> JsonParse(attemptJsonRepair(jsonString)), repairApplied |-> TRUE,
        thrown |-> NoJsonError]
  ELSE [value |-> [ok |-> FALSE, val |-> <<>>], repairApplied |-> TRUE,
        thrown |-> ParseFailure(jsonString)]

JsonInit ==
  /\ CallIdle
  /\ TipIdle
  /\ ByteIdle
  /\ ConcIdle
  /\ ReqIdle
  /\ TruncIdle
  /\ ContentIdle
  /\ FactoryIdle
  /\ RespIdle
  /\ ToolsIdle
  /\ FinalIdle
  /\ RegistryIdle
  /\ TurnIdle
  /\ jsonInput \in JsonInputs
  /\ jsonRun = NoJsonRun
  /\ repairs = <<>>
  /\ jsonPc = "call"

\* safeParseJson(jsonString)
SafeParse ==
  /\ jsonPc = "call"
  /\ jsonRun' = SafeParseRun(jsonInput)
  /\ jsonPc' = "done"
  /\ UNCHANGED <<jsonInput, repairs, notJsonVars>>

\* attemptJsonRepair, on the text and then on its own output.
RepairPass ==
  /\ jsonPc = "done"
  /\ Len(repairs) < 2
  /\ repairs' = Append(repairs,
                       attemptJsonRepair(IF repairs = <<>> THEN jsonInput
                                         ELSE repairs[Len(repairs)]))
  /\ UNCHANGED <<jsonInput, jsonRun, jsonPc, notJsonVars>>

JsonNext ==
  \/ SafeParse
  \/ RepairPass

JsonSpec == JsonInit /\ [][JsonNext]_vars

(***************************************************************************)
(* LlmProviderError.createWithTip, called on its own.                      *)
(***************************************************************************)
\* The calls of the createWithTip tests: message and status (0: none given).
TipTestTable ==
  { [message |-> <<"Unauthorized">>, status |-> 401],
    [message |-> <<"Not found">>, status |-> 404],
    [message |-> <<"Server error">>, status |-> 500],
    [message |-> <<"Model not found">>, status |-> 0],
    [message |-> <<"ECONNREFUSED">>, status |-> 0] }

\* Messages of errors a provider meets: those of the tests, what a server
\* that has no model loaded or cannot be reached gives, and status texts.
TipMessages ==
  {t.message : t \in TipTestTable}
    \cup { <<"model not loaded">>, <<"connection refused">>, <<"fetch failed">>,
           <<"Bad Gateway">>, <<"Service Unavailable">> }

\* Statuses createWithTip is called with (0: none).
TipStatuses == {0, 400, 401, 404, 500, 502, 503}

TipInit ==
  /\ CallIdle
  /\ ByteIdle
  /\ ConcIdle
  /\ ReqIdle
  /\ TruncIdle
  /\ JsonIdle
  /\ ContentIdle
  /\ FactoryIdle
  /\ RespIdle
  /\ ToolsIdle
  /\ FinalIdle
  /\ RegistryIdle
  /\ TurnIdle
  /\ tipArgs \in [message : TipMessages, status : TipStatuses]
  /\ tipError = NoError
  /\ tipPc = "call"

\* LlmProviderError.createWithTip(message, status)
CreateWithTip ==
  /\ tipPc = "call"
  /\ tipError' = createWithTip(tipArgs.message, tipArgs.status, <<>>)
  /\ tipPc' = "done"
  /\ UNCHANGED <<tipArgs, notTipVars>>

TipNext == CreateWithTip

TipSpec == TipInit /\ [][TipNext]_vars

(***************************************************************************)
(* convertContent of the OpenAI-compatible provider.                       *)
(***************************************************************************)
\* Most parts of a content.
MaxParts == 3

\* part.inlineData and part.fileData; given = FALSE when the part has none.
\* An empty mimeType stands for an absent one.
NoInlineData == [given |-> FALSE, mimeType |-> "", data |-> ""]
InlineData(mimeType, data) == [given |-> TRUE, mimeType |-> mimeType, data |-> data]
NoFileData == [given |-> FALSE, mimeType |-> "", fileUri |-> ""]
FileData(mimeType, fileUri) ==
  [given |-> TRUE, mimeType |-> mimeType, fileUri |-> fileUri]

\* A Part of the Gemini format; an empty text is as good as none.
ContentPart(text, inlineData, fileData) ==
  [text |-> text, inlineData |-> inlineData, fileData |-> fileData]

\* The parts tried: text; no text or an empty one and no data either (as a
\* function call part); an image; an image whose MIME type is in upper case;
\* other inline data with and without a MIME type; file references with and
\* without one; text together with an image.
ContentParts ==
  { ContentPart("What do you see?", NoInlineData, NoFileData),
    ContentPart("", NoInlineData, NoFileData),
    ContentPart("", InlineData("image/png", "iVBORw0KGgo="), NoFileData),
    ContentPart("", InlineData("IMAGE/PNG", "iVBORw0KGgo="), NoFileData),
    ContentPart("", InlineData("application/pdf", "JVBERi0="), NoFileData),
    ContentPart("", InlineData("", ""), NoFileData),
    ContentPart("", NoInlineData, FileData("video/mp4", "gs://bucket/clip")),
    ContentPart("", NoInlineData, FileData("", "gs://bucket/clip")),
    ContentPart("Look", InlineData("image/png", "iVBORw0KGgo="), NoFileData) }

\* A content that is a string, and one that is a Part[].
StringContent(text) == [isString |-> TRUE, text |-> text, parts |-> <<>>]
PartsContent(parts) == [isString |-> FALSE, text |-> "", parts |-> parts]

\* OpenAIContentPart
TextPart(text) == [type |-> "text", text |-> text, url |-> "", detail |-> ""]
ImageUrlPart(url) == [type |-> "image_url", text |-> "", url |-> url, detail |-> "auto"]

\* mimeType || 'unknown type'
MimeOrUnknown(mimeType) == IF mimeType # "" THEN mimeType ELSE "unknown type"

\* Faulty variant of convertPart: every inline data becomes an image.
convertPart_AllImages(part) ==
  IF part.text # "" THEN <<TextPart(part.text)>>
  ELSE IF part.inlineData.given
  THEN <<ImageUrlPart("data:" \o part.inlineData.mimeType \o ";base64,"
                        \o part.inlineData.data)>>
  ELSE IF part.fileData.given
  THEN <<TextPart("[File: " \o MimeOrUnknown(part.fileData.mimeType) \o ", "
                    \o part.fileData.fileUri \o "]")>>
  ELSE <<>>

\* The body of the loop of convertContent: what is pushed for one part.
convertPart(part) ==
  IF part.text # "" THEN <<TextPart(part.text)>>
  ELSE IF part.inlineData.given
  THEN IF part.inlineData.mimeType # "" /\ StartsWith(part.inlineData.mimeType, "image/")
       THEN <<ImageUrlPart("data:" \o part.inlineData.mimeType \o ";base64,"
                             \o part.inlineData.data)>>
       ELSE <<TextPart("[File: " \o MimeOrUnknown(part.inlineData.mimeType) \o ", "
                         \o ToString(Len(part.inlineData.data)) \o " bytes]")>>
  ELSE IF part.fileData.given
  THEN <<TextPart("[File: " \o MimeOrUnknown(part.fileData.mimeType) \o ", "
                    \o part.fileData.fileUri \o "]")>>
  ELSE <<>>

RECURSIVE convertParts(_)
\* The loop of convertContent over the parts.
convertParts(parts) ==
  IF parts = <<>> THEN <<>>
  ELSE convertPart(Head(parts)) \o convertParts(Tail(parts))

\* Faulty variant of convertContent: an empty list is returned as it is.
convertContent_NoPlaceholder(c) ==
  IF c.isString THEN c ELSE PartsContent(convertParts(c.parts))

convertContent(c) ==
  IF c.isString THEN c
  ELSE IF convertParts(c.parts) # <<>> THEN PartsContent(convertParts(c.parts))
  ELSE PartsContent(<<TextPart("[Empty content]")>>)

ContentInit ==
  /\ CallIdle
  /\ ByteIdle
  /\ ConcIdle
  /\ ReqIdle
  /\ TruncIdle
  /\ JsonIdle
  /\ TipIdle
  /\ FactoryIdle
  /\ RespIdle
  /\ ToolsIdle
  /\ FinalIdle
  /\ RegistryIdle
  /\ TurnIdle
  /\ \/ \E text \in {"", "Hello"} : msgContent = StringContent(text)
     \/ \E n \in 0..MaxParts : \E parts \in [1..n -> ContentParts] :
          msgContent = PartsContent(parts)
  /\ openaiContent = StringContent("")
  /\ contentPc = "call"

\* this.convertContent(msg.content)
ConvertContent ==
  /\ contentPc = "call"
  /\ openaiContent' = convertContent(msgContent)
  /\ contentPc' = "done"
  /\ UNCHANGED <<msgContent, notContentVars>>

ContentNext == ConvertContent

ContentSpec == ContentInit /\ [][ContentNext]_vars

(***************************************************************************)
(* createLlmProvider: which provider is chosen from the caller's           *)
(* configuration, the environment and the local servers that answer.       *)
(***************************************************************************)
UpperCase == "ABCDEFGHIJKLMNOPQRSTUVWXYZ"
LowerCase == "abcdefghijklmnopqrstuvwxyz"

\* One character of String.prototype.toLowerCase.
LowerChar(c) ==
  LET at == {i \in 1..Len(UpperCase) : SubSeq(UpperCase, i, i) = c} IN
  IF at = {} THEN c
  ELSE LET i == CHOOSE k \in at : TRUE IN SubSeq(LowerCase, i, i)

RECURSIVE ToLowerCase(_)
ToLowerCase(s) ==
  IF s = "" THEN ""
  ELSE LowerChar(SubSeq(s, 1, 1)) \o ToLowerCase(SubSeq(s, 2, Len(s)))

LMStudioUrl == "http://localhost:1234/v1"
OllamaUrl == "http://localhost:11434/v1"

\* isLMStudioAvailable, isOllamaAvailable: response.ok, and false when the
\* fetch throws. A server answers "ok", "notOk" (a status outside 2xx) or
\* "refused".
IsAvailable(answer) == answer = "ok"

\* The provider named by LLM_PROVIDER before AIFA_DEFAULT_API.
NamedProvider_LegacyFirst(config, e) ==
  IF config.provider # "" THEN config.provider
  ELSE IF e.LLM_PROVIDER # "" THEN e.LLM_PROVIDER
  ELSE IF e.AIFA_DEFAULT_API # "" THEN ToLowerCase(e.AIFA_DEFAULT_API)
  ELSE ""

\* createLlmProvider up to its step 2: config?.provider, else
\* AIFA_DEFAULT_API in lower case, else LLM_PROVIDER, else undefined.
NamedProvider(config, e) ==
  IF config.provider # "" THEN config.provider
  ELSE IF e.AIFA_DEFAULT_API # "" THEN ToLowerCase(e.AIFA_DEFAULT_API)
  ELSE IF e.LLM_PROVIDER # "" THEN e.LLM_PROVIDER
  ELSE ""

\* createLlmProvider, steps 4 and 5: the environment configuration, then
\* the final fallback.
FromEnvironment(name, e) ==
  IF name # "" THEN name
  ELSE IF e.OPENAI_COMPATIBLE_BASE_URL # "" \/ e.OPENAI_API_BASE # ""
  THEN "openai-compatible"
  ELSE "google-gemini"

\* validateProviderEnvironment(providerName): the errors it returns.
validateProviderEnvironment(name, e) ==
  LET targetProvider ==
        IF name # "" THEN name
        ELSE IF e.AIFA_DEFAULT_API # "" THEN e.AIFA_DEFAULT_API
        ELSE IF e.LLM_PROVIDER # "" THEN e.LLM_PROVIDER
        ELSE "openai-compatible" IN
  IF targetProvider = "openai-compatible"
  THEN IF /\ e.OPENAI_COMPATIBLE_BASE_URL = ""
          /\ e.OPENAI_API_BASE = ""
          /\ e.AIFA_DEFAULT_API = "openai-compatible"
       THEN <<"base URL is not configured">>
       ELSE <<>>
  ELSE IF targetProvider = "google-gemini" THEN <<>>
  ELSE <<"Unknown LLM provider">>

EndsWith(s, suffix) ==
  /\ Len(s) >= Len(suffix)
  /\ SubSeq(s, Len(s) - Len(suffix) + 1, Len(s)) = suffix

\* The base URL the 'openai-compatible' factory gives to the provider.
FactoryBaseUrl(config, e) ==
  LET baseUrl ==
        IF config # "config" THEN config
        ELSE IF e.OPENAI_COMPATIBLE_BASE_URL # ""
        THEN e.OPENAI_COMPATIBLE_BASE_URL
        ELSE IF e.OPENAI_API_BASE # "" THEN e.OPENAI_API_BASE
        ELSE LMStudioUrl IN
  IF EndsWith(baseUrl, "/v1") THEN baseUrl
  ELSE (IF EndsWith(baseUrl, "/") THEN SubSeq(baseUrl, 1, Len(baseUrl) - 1)
        ELSE baseUrl) \o "/v1"

\* The error LlmProviderRegistry.create rejects with for this name and
\* configuration ("" if it resolves).
RegistryError(name, config) ==
  IF name = "openai-compatible" THEN ""
  ELSE IF name = "google-gemini"
  THEN IF config = "config" /\ factoryConfig.contentGenerator THEN ""
       ELSE "requires a ContentGenerator"
  ELSE "Unknown LLM provider"

ProviderNames == {"", "openai-compatible", "google-gemini"}
ServerAnswers == {"ok", "notOk", "refused"}

FactoryInit ==
  /\ CallIdle
  /\ ByteIdle
  /\ ConcIdle
  /\ ReqIdle
  /\ TruncIdle
  /\ JsonIdle
  /\ TipIdle
  /\ ContentIdle
  /\ RespIdle
  /\ ToolsIdle
  /\ FinalIdle
  /\ RegistryIdle
  /\ TurnIdle
  /\ factoryConfig \in [provider : ProviderNames, contentGenerator : BOOLEAN]
  /\ env \in [AIFA_DEFAULT_API : {"", "OpenAI-Compatible", "google-gemini",
                                  "ollama"},
              LLM_PROVIDER : ProviderNames,
              OPENAI_COMPATIBLE_BASE_URL : {"", "http://127.0.0.1:1234"},
              OPENAI_API_BASE : {"", "http://localhost:8080/v1/"},
              GEMINI_API_KEY : {"", "test-key"}]
  /\ localServers \in [lmStudio : ServerAnswers, ollama : ServerAnswers]
  /\ providerName = ""
  /\ providerConfig = "config"
  /\ probes = <<>>
  /\ created = NoProviderCreated
  /\ factoryError = ""
  /\ factoryPc = "call"

\* createLlmProvider up to the first await: the provider named by the
\* caller or by the environment.
SelectNamed ==
  /\ factoryPc = "call"
  /\ providerName' = NamedProvider(factoryConfig, env)
  /\ factoryPc' = IF providerName' = "" THEN "lmstudio" ELSE "select"
  /\ UNCHANGED <<factoryConfig, env, localServers, providerConfig, probes,
                 created, factoryError, notFactoryVars>>

\* detectBestLocalProvider: await isLMStudioAvailable()
ProbeLMStudio ==
  /\ factoryPc = "lmstudio"
  /\ probes' = Append(probes, "lmStudio")
  /\ IF IsAvailable(localServers.lmStudio)
     THEN /\ providerName' = "openai-compatible"
          /\ providerConfig' = LMStudioUrl
          /\ factoryPc' = "select"
     ELSE /\ factoryPc' = "ollama"
          /\ UNCHANGED <<providerName, providerConfig>>
  /\ UNCHANGED <<factoryConfig, env, localServers, created, factoryError,
                 notFactoryVars>>

\* detectBestLocalProvider: await isOllamaAvailable()
ProbeOllama ==
  /\ factoryPc = "ollama"
  /\ probes' = Append(probes, "ollama")
  /\ IF IsAvailable(localServers.ollama)
     THEN /\ providerName' = "openai-compatible"
          /\ providerConfig' = OllamaUrl
     ELSE UNCHANGED <<providerName, providerConfig>>
  /\ factoryPc' = "select"
  /\ UNCHANGED <<factoryConfig, env, localServers, created, factoryError,
                 notFactoryVars>>

\* createLlmProvider from step 4 to its end: the environment
\* configuration, the fallback, the validation and the creation.
CreateProvider ==
  /\ factoryPc = "select"
  /\ providerName' = FromEnvironment(providerName, env)
  /\ LET errors == IF providerConfig = "config"
                   THEN validateProviderEnvironment(providerName', env)
                   ELSE <<>> IN
     IF errors # <<>> /\ providerName' # "google-gemini"
     THEN /\ factoryError' = "configuration errors"
          /\ factoryPc' = "rejected"
          /\ UNCHANGED created
     ELSE IF RegistryError(providerName', providerConfig) # ""
     THEN /\ factoryError' = RegistryError(providerName', providerConfig)
          /\ factoryPc' = "rejected"
          /\ UNCHANGED created
     ELSE /\ created' =
               [name |-> providerName',
                baseUrl |-> IF providerName' = "openai-compatible"
                            THEN FactoryBaseUrl(providerConfig, env)
                            ELSE ""]
          /\ factoryPc' = "resolved"
          /\ UNCHANGED factoryError
  /\ UNCHANGED <<factoryConfig, env, localServers, providerConfig, probes,
                 notFactoryVars>>

FactoryNext ==
  \/ SelectNamed
  \/ ProbeLMStudio
  \/ ProbeOllama
  \/ CreateProvider

FactorySpec == FactoryInit /\ [][FactoryNext]_vars

(***************************************************************************)
(* chat without streaming, once sendRequest has resolved: the conversion   *)
(* of the vendor's response and the catch block of chat.                   *)
(***************************************************************************)
\* Most tool calls in one vendor response.
MaxToolCalls == 2

\* What function.arguments of a tool call can be: empty, {}, {"a":1},
\* {"a":1 (parses after repair), } (parses neither way), the number 1 and
\* the array [1].
ArgumentTexts ==
  {<<>>, EmptyObject, ArgOpen \o ArgClose, ArgOpen, ArgClose, <<DIGIT>>,
   <<LS, DIGIT, RS>>}

\* A tool call of the vendor's message.
VendorToolCall(id, name, arguments) ==
  [id |-> id, name |-> name, arguments |-> arguments]

VendorToolCalls ==
  {VendorToolCall("call_A", "search", a) : a \in ArgumentTexts}

VendorResponses ==
  {NoVendorResponse}
    \cup [hasMessage : {TRUE}, content : {<<>>, <<"H">>},
          hasToolCalls : {FALSE}, tool_calls : {<<>>}]
    \cup [hasMessage : {TRUE}, content : {<<>>, <<"H">>},
          hasToolCalls : {TRUE},
          tool_calls : UNION {[1..n -> VendorToolCalls] : n \in 0..MaxToolCalls}]

\* Faulty variant of ArgumentsOf: a text that does not parse becomes {}.
ArgumentsOf_Swallowed(arguments) ==
  LET r == SafeParseRun(IF arguments = <<>> THEN EmptyObject ELSE arguments) IN
  IF r.value.ok THEN r
  ELSE [value |-> [ok |-> TRUE, val |-> EmptyObject], repairApplied |-> TRUE,
        thrown |-> NoJsonError]

\* safeParseJson(call.function.arguments || '{}')
ArgumentsOf(arguments) ==
  SafeParseRun(IF arguments = <<>> THEN EmptyObject ELSE arguments)

\* The first tool call whose arguments make safeParseJson throw (0: none).
FirstThrowing(calls) ==
  LET bad == {k \in 1..Len(calls) : ~ArgumentsOf(calls[k].arguments).value.ok} IN
  IF bad = {} THEN 0 ELSE CHOOSE k \in bad : \A j \in bad : k <= j

\* convertOpenAIResponse, when nothing throws.
convertOpenAIResponse(response) ==
  IF ~response.hasMessage THEN EmptyResponse
  ELSE Response(response.content # <<>>, response.content,
                response.hasToolCalls,
                [k \in 1..Len(response.tool_calls) |->
                   [id |-> response.tool_calls[k].id,
                    name |-> response.tool_calls[k].name,
                    arguments |->
                      ArgumentsOf(response.tool_calls[k].arguments).value.val]])

RespInit ==
  /\ CallIdle
  /\ ByteIdle
  /\ ConcIdle
  /\ ReqIdle
  /\ TruncIdle
  /\ JsonIdle
  /\ TipIdle
  /\ ContentIdle
  /\ FactoryIdle
  /\ ToolsIdle
  /\ FinalIdle
  /\ RegistryIdle
  /\ TurnIdle
  /\ vendorResponse \in VendorResponses
  /\ respHandlers \in BOOLEAN
  /\ llmResponse = EmptyResponse
  /\ respError = NoJsonError
  /\ respOnErrors = <<>>
  /\ respPc = "call"

\* return this.convertOpenAIResponse(response), and the catch block of chat:
\* handlers?.onError?.(error); throw error
ConvertResponse ==
  /\ respPc = "call"
  /\ LET bad == IF vendorResponse.hasMessage /\ vendorResponse.hasToolCalls
                THEN FirstThrowing(vendorResponse.tool_calls) ELSE 0 IN
     IF bad # 0
     THEN /\ respError' = ArgumentsOf(vendorResponse.tool_calls[bad].arguments).thrown
          /\ respOnErrors' = IF respHandlers THEN Append(respOnErrors, respError')
                             ELSE respOnErrors
          /\ respPc' = "rejected"
          /\ UNCHANGED llmResponse
     ELSE /\ llmResponse' = convertOpenAIResponse(vendorResponse)
          /\ respPc' = "resolved"
          /\ UNCHANGED <<respError, respOnErrors>>
  /\ UNCHANGED <<vendorResponse, respHandlers, notRespVars>>

RespNext == ConvertResponse

RespSpec == RespInit /\ [][RespNext]_vars

(***************************************************************************)
(* convertToOpenAIRequest: the tool declarations of the request, mapped to *)
(* the tools of the vendor's request body.                                 *)
(***************************************************************************)
\* Most Tools in a request, and most functionDeclarations in one Tool.
MaxTools == 2
MaxDeclarations == 2

\* A FunctionDeclaration; "" stands for an absent description or schema.
FunctionDeclaration(name, description, parameters) ==
  [name |-> name, description |-> description, parameters |-> parameters]

FunctionDeclarations ==
  { FunctionDeclaration("get_weather", "Get weather information", "location"),
    FunctionDeclaration("search", "", "query"),
    FunctionDeclaration("get_time", "Current time", "") }

\* A Tool: its functionDeclarations (<<>>: none, or the field is absent).
Tools ==
  UNION {[1..n -> FunctionDeclarations] : n \in 0..MaxDeclarations}

\* The declaration a Tool is mapped from: functionDeclarations?.[0], with
\* 'unknown' for a missing name.
FirstDeclaration(tool) ==
  IF tool = <<>> THEN FunctionDeclaration("unknown", "", "")
  ELSE FunctionDeclaration(IF tool[1].name # "" THEN tool[1].name ELSE "unknown",
                           tool[1].description, tool[1].parameters)

\* The entry of result.tools made from one Tool.
FunctionTool(tool) == [type |-> "function", function |-> FirstDeclaration(tool)]

\* if (request.tools && request.tools.length > 0) { result.tools =
\* request.tools.map(...); result.tool_choice = 'auto' }
convertTools(tools) ==
  IF tools = <<>> THEN NoTools
  ELSE [present |-> TRUE,
        tools |-> [k \in 1..Len(tools) |-> FunctionTool(tools[k])],
        tool_choice |-> "auto"]

ToolsInit ==
  /\ CallIdle
  /\ ByteIdle
  /\ ConcIdle
  /\ ReqIdle
  /\ TruncIdle
  /\ JsonIdle
  /\ TipIdle
  /\ ContentIdle
  /\ FactoryIdle
  /\ RespIdle
  /\ FinalIdle
  /\ RegistryIdle
  /\ TurnIdle
  /\ requestTools \in UNION {[1..n -> Tools] : n \in 0..MaxTools}
  /\ openaiTools = NoTools
  /\ toolsPc = "call"

\* this.convertToOpenAIRequest(request), as far as the tools go
ConvertTools ==
  /\ toolsPc = "call"
  /\ openaiTools' = convertTools(requestTools)
  /\ toolsPc' = "done"
  /\ UNCHANGED <<requestTools, notToolVars>>

ToolsNext == ConvertTools

ToolsSpec == ToolsInit /\ [][ToolsNext]_vars

(***************************************************************************)
(* The accumulation of tool-call fragments whose arguments are any JSON    *)
(* text, and the finalization of the accumulators.                         *)
(***************************************************************************)
\* Most fragments in one stream.
MaxFragments == 2

\* What the arguments of a fragment can be: nothing, {"a":1 and } (the two
\* halves of an object), the number 1, the array [1] and the string "a".
FragmentArguments ==
  {<<>>, ArgOpen, ArgClose, <<DIGIT>>, <<LS, DIGIT, RS>>, <<QT, LETTER, QT>>}

AnyFragments ==
  {Frag(i, id, name, args) :
     i \in {0, 1}, id \in {"", "call_A"}, name \in {"", "search"},
     args \in FragmentArguments}

FinalInit ==
  /\ CallIdle
  /\ ByteIdle
  /\ ConcIdle
  /\ ReqIdle
  /\ TruncIdle
  /\ JsonIdle
  /\ TipIdle
  /\ ContentIdle
  /\ FactoryIdle
  /\ RespIdle
  /\ ToolsIdle
  /\ RegistryIdle
  /\ TurnIdle
  /\ received = <<>>
  /\ accumulators = <<>>
  /\ finalized = EmptyResponse
  /\ finalPc = "loop"

\* The loop over delta.tool_calls, for one more fragment.
AccumulateDelta ==
  /\ finalPc = "loop"
  /\ Len(received) < MaxFragments
  /\ \E f \in AnyFragments :
       /\ received' = Append(received, f)
       /\ accumulators' = AccumulateFragment(accumulators, f)
  /\ UNCHANGED <<finalized, finalPc, notFinalVars>>

\* "Build final response", from the accumulators alone.
BuildFinal ==
  /\ finalPc = "loop"
  /\ \E gens \in GenChoices(Len(accumulators)) :
       finalized' = BuildResponse(<<>>, accumulators, gens)
  /\ finalPc' = "done"
  /\ UNCHANGED <<received, accumulators, notFinalVars>>

FinalNext ==
  \/ AccumulateDelta
  \/ BuildFinal

FinalSpec == FinalInit /\ [][FinalNext]_vars

(***************************************************************************)
(* LlmProviderRegistry, a static map that register, create and             *)
(* createLlmProvider share.                                                *)
(***************************************************************************)
BuiltinProviders == {"openai-compatible", "google-gemini"}

\* Names a caller registers or asks for; "nonexistent" is never registered.
CustomProviders == {"custom", "test"}
RequestedProviders == BuiltinProviders \cup CustomProviders \cup {"nonexistent"}

\* if (LlmProviderRegistry.list().length === 0) registerBuiltinProviders()
WithBuiltins(registered) ==
  IF registered = {} THEN BuiltinProviders ELSE registered

\* LlmProviderRegistry.create(name): the message of the error it throws
\* ("" when the factory is called).
CreateError(registered, name) ==
  IF name \in registered THEN "" ELSE "Unknown LLM provider"

\* The errors validateProviderEnvironment has for a provider named by the
\* caller's configuration, the environment being in order.
NameErrors(name) ==
  IF name \in {"openai-compatible", "google-gemini"} THEN <<>>
  ELSE <<"Unknown LLM provider">>

RegistryInit ==
  /\ CallIdle
  /\ ByteIdle
  /\ ConcIdle
  /\ ReqIdle
  /\ TruncIdle
  /\ JsonIdle
  /\ TipIdle
  /\ ContentIdle
  /\ FactoryIdle
  /\ RespIdle
  /\ ToolsIdle
  /\ FinalIdle
  /\ TurnIdle
  /\ factories = {}
  /\ factoryCalled = FALSE
  /\ creation = NoCreation

\* LlmProviderRegistry.register(name, factory)
Register ==
  /\ \E name \in BuiltinProviders \cup CustomProviders :
       factories' = factories \cup {name}
  /\ UNCHANGED <<factoryCalled, creation, notRegistryVars>>

\* LlmProviderRegistry.create(name, config), called directly
RegistryCreate ==
  /\ \E name \in RequestedProviders :
       creation' = [via |-> "registry", name |-> name,
                    error |-> CreateError(factories, name)]
  /\ UNCHANGED <<factories, factoryCalled, notRegistryVars>>

\* createLlmProvider({provider: name, ...}): the registration of the
\* built-in providers, the validation and LlmProviderRegistry.create
CreateNamedProvider ==
  /\ \E name \in RequestedProviders :
       /\ factories' = WithBuiltins(factories)
       /\ creation' =
            [via |-> "createLlmProvider", name |-> name,
             error |-> IF NameErrors(name) # <<>>
                       THEN "configuration errors: " \o NameErrors(name)[1]
                       ELSE CreateError(factories', name)]
  /\ factoryCalled' = TRUE
  /\ UNCHANGED notRegistryVars

RegistryNext ==
  \/ Register
  \/ RegistryCreate
  \/ CreateNamedProvider

RegistrySpec == RegistryInit /\ [][RegistryNext]_vars

(***************************************************************************)
(* runNonInteractive: the loop of turns, each one sendMessageStream and    *)
(* the tool calls its stream asked for.                                    *)
(***************************************************************************)
\* The largest maxSessionTurns, which also caps the turns of a run without
\* a limit; and the most tool-call requests in one turn.
MaxTurns == 3
MaxToolRequests == 2

\* Faulty variant of ReachedMaxTurns: one turn too many.
ReachedMaxTurns_OneMore(count, limit) == limit >= 0 /\ count > limit + 1

\* config.getMaxSessionTurns() >= 0 && turnCount > config.getMaxSessionTurns()
ReachedMaxTurns(count, limit) == limit >= 0 /\ count > limit

TurnInit ==
  /\ CallIdle
  /\ ByteIdle
  /\ ConcIdle
  /\ ReqIdle
  /\ TruncIdle
  /\ JsonIdle
  /\ TipIdle
  /\ ContentIdle
  /\ FactoryIdle
  /\ RespIdle
  /\ ToolsIdle
  /\ FinalIdle
  /\ RegistryIdle
  /\ maxSessionTurns \in {-1} \cup 0..MaxTurns
  /\ turnCount = 0
  /\ requestsSent = 0
  /\ toolCallRequests = 0
  /\ turns = <<>>
  /\ turnPc = "loop"

\* The head of while (true): turnCount++, the test of the limit, and
\* geminiClient.sendMessageStream(...)
StartTurn ==
  /\ turnPc = "loop"
  /\ turnCount < MaxTurns + 1
  /\ turnCount' = turnCount + 1
  /\ IF ReachedMaxTurns(turnCount', maxSessionTurns)
     THEN /\ turnPc' = "ended"
          /\ UNCHANGED <<requestsSent, toolCallRequests>>
     ELSE /\ requestsSent' = requestsSent + 1
          /\ toolCallRequests' = 0
          /\ turnPc' = "stream"
  /\ UNCHANGED <<maxSessionTurns, turns, notTurnVars>>

\* for await (const event of responseStream): a Content event is written
\* out, a ToolCallRequest is pushed.
StreamEvent ==
  /\ turnPc = "stream"
  /\ \E type \in {"Content", "ToolCallRequest"} :
       IF type = "ToolCallRequest"
       THEN /\ toolCallRequests < MaxToolRequests
            /\ toolCallRequests' = toolCallRequests + 1
       ELSE UNCHANGED toolCallRequests
  /\ UNCHANGED <<maxSessionTurns, turnCount, requestsSent, turns, turnPc,
                 notTurnVars>>

\* The stream ends: the tool calls are executed and their responses are the
\* next message, or, with none, the run returns.
StreamEnd ==
  /\ turnPc = "stream"
  /\ turns' = Append(turns, toolCallRequests)
  /\ turnPc' = IF toolCallRequests > 0 THEN "loop" ELSE "ended"
  /\ UNCHANGED <<maxSessionTurns, turnCount, requestsSent, toolCallRequests,
                 notTurnVars>>

\* The stream, or a tool call, throws: the catch block exits the process.
TurnFails ==
  /\ turnPc = "stream"
  /\ turnPc' = "failed"
  /\ UNCHANGED <<maxSessionTurns, turnCount, requestsSent, toolCallRequests,
                 turns, notTurnVars>>

TurnNext ==
  \/ StartTurn
  \/ StreamEvent
  \/ StreamEnd
  \/ TurnFails

TurnSpec == TurnInit /\ [][TurnNext]_vars

(***************************************************************************)
(* What the stream delivered, read off the chunks the framer yielded.      *)
(***************************************************************************)
Resolved == pc = "resolved"
Rejected == pc = "rejected"

\* The chunks that entered the accumulation loop past its first check.
Consumed == SelectSeq(yielded, LAMBDA c : c.hasChoice)

\* All tool-call fragments received, in arrival order.
AllFrags == Concat([k \in 1..Len(Consumed) |-> Consumed[k].tool_calls])

\* The fragments received for index i, in arrival order.
FragsOf(i) == SelectSeq(AllFrags, LAMBDA f : f.index = i)

\* The distinct tool-call indices seen in the stream.
IndicesSeen == {AllFrags[k].index : k \in 1..Len(AllFrags)}

\* The p-th smallest index seen.
NthIndex(p) ==
  CHOOSE i \in IndicesSeen : Cardinality({j \in IndicesSeen : j < i}) = p - 1

\* The accumulator of index i.
AccOf(i) ==
  toolCallAccumulators[CHOOSE k \in 1..Len(toolCallAccumulators) :
                         toolCallAccumulators[k].index = i]

\* The concatenation, in arrival order, of the argument fragments of index i.
ArgsReceived(i) ==
  LET fr == FragsOf(i) IN Concat([k \in 1..Len(fr) |-> fr[k].arguments])

\* The non-empty ids (names) received for index i, in arrival order.
IdsReceived(i) ==
  LET fr == SelectSeq(FragsOf(i), LAMBDA f : f.id # "") IN
  [k \in 1..Len(fr) |-> fr[k].id]
NamesReceived(i) ==
  LET fr == SelectSeq(FragsOf(i), LAMBDA f : f.name # "") IN
  [k \in 1..Len(fr) |-> fr[k].name]

(***************************************************************************)
(* C1.  The tool calls of a finalized streaming response are ordered by    *)
(* ascending tool-call index, whatever the arrival order, with exactly one *)
(* entry per distinct index seen: the p-th entry is the tool call of the   *)
(* p-th smallest index.                                                    *)
(***************************************************************************)
C1_SortedByIndex ==
  (Resolved /\ provider = "openai") =>
    /\ Len(result.toolCalls) = Cardinality(IndicesSeen)
    /\ result.hasToolCalls = (IndicesSeen # {})
    /\ \A p \in 1..Len(result.toolCalls) :
         \E gen \in GenIds : result.toolCalls[p] = ToolCallOf(AccOf(NthIndex(p)), gen)

\* A stream in which index 1 arrived before index 0, finalized with two
\* different tool calls.
C1_Witness ==
  /\ Resolved /\ provider = "openai"
  /\ Len(AllFrags) >= 2
  /\ AllFrags[1].index = 1
  /\ 0 \in IndicesSeen
  /\ Len(result.toolCalls) = 2
  /\ result.toolCalls[1] # result.toolCalls[2]

(***************************************************************************)
(* C2.  For every index seen whose argument fragments, concatenated in     *)
(* arrival order, are a JSON text, the arguments of the finalized entry    *)
(* are the value of that text: the fragments of other indices and the      *)
(* text fragments in between do not affect it.                             *)
(***************************************************************************)
C2_ArgumentsAreParsedConcatenation ==
  (Resolved /\ provider = "openai") =>
    \A p \in 1..Cardinality(IndicesSeen) :
      LET parsed == JsonParse(ArgsReceived(NthIndex(p))) IN
      parsed.ok =>
        /\ p <= Len(result.toolCalls)
        /\ result.toolCalls[p].arguments = parsed.val

\* Index 0 received {"a":1 and then }, with a fragment of index 1 and a text
\* fragment arriving in between or around them, and came out as {"a":1}.
C2_Witness ==
  /\ Resolved /\ provider = "openai"
  /\ Len(Consumed) >= 3
  /\ Len(FragsOf(0)) = 2
  /\ FragsOf(0)[1].arguments = ArgOpen
  /\ FragsOf(0)[2].arguments = ArgClose
  /\ Consumed[1].tool_calls # <<>> /\ Consumed[1].tool_calls[1].index = 0
  /\ Consumed[2].tool_calls # <<>> /\ Consumed[2].tool_calls[1].index = 1
  /\ result.toolCalls[1].arguments = ArgOpen \o ArgClose

(***************************************************************************)
(* C3.  On a streaming chat that resolves, with either adapter, the        *)
(* concatenation in call order of the texts passed to onDelta is the text  *)
(* of the response; when onDelta was never called the response has no      *)
(* text.                                                                   *)
(***************************************************************************)
C3_DeltasConcatenateToText ==
  Resolved =>
    IF deltas = <<>> THEN ~result.hasText
    ELSE result.hasText /\ result.text = Concat(deltas)

\* A Gemini stream that resolved after two different texts were passed on.
C3_Witness ==
  /\ Resolved /\ provider = "gemini"
  /\ Len(deltas) >= 2
  /\ deltas[1] # deltas[2]
  /\ result.hasToolCalls

(***************************************************************************)
(* C4, as claimed.  The id and the name of an index are first-write-wins:  *)
(* the finalized tool call carries the first non-empty id and the first    *)
(* non-empty name received for its index.                                  *)
(***************************************************************************)
C4_FirstWriteWins ==
  (Resolved /\ provider = "openai") =>
    \A p \in 1..Len(result.toolCalls) :
      LET ids == IdsReceived(NthIndex(p))
          names == NamesReceived(NthIndex(p))
      IN /\ ids # <<>> => result.toolCalls[p].id = ids[1]
         /\ names # <<>> => result.toolCalls[p].name = names[1]

(***************************************************************************)
(* C4, amended.  The id and the name of an index are last-write-wins: the  *)
(* finalized tool call carries the last non-empty id and the last          *)
(* non-empty name received for its index.                                  *)
(***************************************************************************)
C4_LastWriteWins ==
  (Resolved /\ provider = "openai") =>
    \A p \in 1..Len(result.toolCalls) :
      LET ids == IdsReceived(NthIndex(p))
          names == NamesReceived(NthIndex(p))
      IN /\ ids # <<>> => result.toolCalls[p].id = ids[Len(ids)]
         /\ names # <<>> => result.toolCalls[p].name = names[Len(names)]

\* Index 0 received the id call_A and the name search, then the id call_B and
\* the name get_time, and was finalized with the later ones.
C4_Witness ==
  /\ Resolved /\ provider = "openai"
  /\ 0 \in IndicesSeen
  /\ IdsReceived(0) = <<"call_A", "call_B">>
  /\ NamesReceived(0) = <<"search", "get_time">>
  /\ result.toolCalls[1].id = "call_B"
  /\ result.toolCalls[1].name = "get_time"

(***************************************************************************)
(* C5.  Once the accumulation loop has processed a chunk with a finish     *)
(* reason, no further chunk is consumed: the chunks yielded, the text      *)
(* buffer, the accumulators and the onDelta calls do not change any more,  *)
(* and the call is at its finalization or has resolved.  (The chunk is     *)
(* processed when the loop body has run to its end, onDelta included.)     *)
(***************************************************************************)
FinishProcessed == streamFinished /\ thrown = ""

C5_NothingAfterFinishReason ==
  /\ [](FinishProcessed => pc \in {"finalize", "resolved"})
  /\ [][streamFinished =>
          /\ yielded' = yielded
          /\ textBuf' = textBuf
          /\ toolCallAccumulators' = toolCallAccumulators
          /\ deltas' = deltas
          /\ pos' = pos]_vars

\* A resolved call whose finish-reason chunk was followed, in the same read,
\* by a chunk with text that was never looked at.
C5_Witness ==
  /\ Resolved /\ streamFinished
  /\ pos <= Len(wire)
  /\ wire[pos].kind = "chunk" /\ wire[pos].hasChoice /\ wire[pos].content # <<>>
  /\ yielded = SelectSeq(SubSeq(wire, 1, pos - 1), LAMBDA l : l.kind = "chunk")

(***************************************************************************)
(* C6.  After the framer has read a [DONE] frame it yields nothing more,   *)
(* so that no later frame reaches the accumulator; and the chunks yielded  *)
(* are then exactly the chunk frames that preceded [DONE], in order, all   *)
(* of them accumulated when the response is built.                         *)
(***************************************************************************)
C6_NothingAfterDone ==
  /\ [][sawDone =>
          /\ yielded' = yielded
          /\ textBuf' = textBuf
          /\ toolCallAccumulators' = toolCallAccumulators
          /\ deltas' = deltas
          /\ pos' = pos]_vars
  /\ [](sawDone =>
          /\ wire[pos - 1].kind = "done"
          /\ yielded = SelectSeq(SubSeq(wire, 1, pos - 2), LAMBDA l : l.kind = "chunk")
          /\ textBuf = SelectSeq([k \in 1..Len(Consumed) |-> Consumed[k].content],
                                 LAMBDA t : t # <<>>)
          /\ toolCallAccumulators = AccumulateAll(<<>>, AllFrags)
          /\ pc \in {"finalize", "resolved"})

\* A resolved call in which a text chunk came before [DONE] and another text
\* chunk, delivered by the reader, after it.
C6_Witness ==
  /\ Resolved /\ sawDone
  /\ yielded # <<>> /\ deltas # <<>>
  /\ pos <= Len(wire)
  /\ wire[pos].kind = "chunk" /\ wire[pos].hasChoice /\ wire[pos].content # <<>>

(***************************************************************************)
(* C7.  A streaming chat that resolves has called onDone exactly once,     *)
(* with the response it resolves with, and calls neither onDelta nor       *)
(* onDone after that call.                                                 *)
(***************************************************************************)
C7_OneResponse ==
  /\ [](Resolved => (Len(doneArgs) = 1 /\ doneArgs[1] = result))
  /\ [](doneArgs # <<>> => Resolved)
  /\ [][doneArgs # <<>> => (deltas' = deltas /\ doneArgs' = doneArgs)]_vars

\* A resolved call of the OpenAI-compatible adapter with text and a tool call.
C7_Witness ==
  /\ Resolved /\ provider = "openai"
  /\ Len(deltas) >= 1
  /\ Len(doneArgs) = 1
  /\ doneArgs[1].hasText /\ doneArgs[1].hasToolCalls

(***************************************************************************)
(* C8.  If onDelta throws, chat rejects with that exception: nothing more  *)
(* is read or consumed, onDelta is not called again and onDone is never    *)
(* called.                                                                 *)
(***************************************************************************)
C8_CallbackExceptionAborts ==
  /\ [](thrown # "" => (Rejected /\ failure = thrown /\ doneArgs = <<>>))
  /\ [][thrown # "" =>
          /\ wire' = wire
          /\ pos' = pos
          /\ yielded' = yielded
          /\ deltas' = deltas
          /\ doneArgs' = doneArgs]_vars

\* onDelta threw on the second text of an OpenAI-compatible stream while a
\* delivered line was still waiting.
C8_Witness ==
  /\ provider = "openai" /\ thrown # "" /\ Rejected
  /\ Len(deltas) = 2
  /\ pos <= Len(wire)

(***************************************************************************)
(* C9.  A tool call whose accumulated arguments parse neither directly nor *)
(* after repair does not fail the finalization: it is delivered with the   *)
(* arguments {} and its own id and name, and the text and the other tool   *)
(* calls are what they are when its arguments are valid.                   *)
(***************************************************************************)
\* The accumulated arguments of the p-th tool call are beyond repair.
Unparseable(p) ==
  LET src == ArgsReceived(NthIndex(p)) IN src # <<>> /\ ~safeParseJson(src).ok

\* The accumulators, with valid arguments in place of those of index i.
WithValidArgs(i) ==
  [k \in 1..Len(toolCallAccumulators) |->
     IF toolCallAccumulators[k].index = i
     THEN [toolCallAccumulators[k] EXCEPT !.argsSrc = ArgOpen \o ArgClose]
     ELSE toolCallAccumulators[k]]

C9_UnparseableArgumentsDegrade ==
  /\ failure # "parse"
  /\ (Resolved /\ provider = "openai") =>
       \A p \in 1..Cardinality(IndicesSeen) :
         Unparseable(p) =>
           LET acc == AccOf(NthIndex(p)) IN
           /\ Len(result.toolCalls) = Cardinality(IndicesSeen)
           /\ result.toolCalls[p].arguments = EmptyObject
           /\ acc.id # "" => result.toolCalls[p].id = acc.id
           /\ acc.id = "" => result.toolCalls[p].id \in GenIds
           /\ result.toolCalls[p].name = (IF acc.name # "" THEN acc.name ELSE "unknown")
           /\ \E gens \in [1..Len(toolCallAccumulators) -> GenIds] :
                LET valid == BuildResponse(textBuf, WithValidArgs(NthIndex(p)), gens) IN
                /\ result.hasText = valid.hasText
                /\ result.text = valid.text
                /\ result.text = Concat(deltas)
                /\ \A q \in 1..Len(result.toolCalls) :
                     q # p => result.toolCalls[q] = valid.toolCalls[q]

\* A resolved call with text, a tool call whose arguments are beyond repair
\* and another one with the arguments {"a":1}.
C9_Witness ==
  /\ Resolved /\ provider = "openai"
  /\ result.hasText
  /\ Len(result.toolCalls) = 2
  /\ Unparseable(2)
  /\ result.toolCalls[2].arguments = EmptyObject
  /\ result.toolCalls[1].arguments = ArgOpen \o ArgClose

(***************************************************************************)
(* C10.  A streaming chat resolves with a response without text and        *)
(* without tool calls only if the vendor reported a terminal state: a      *)
(* [DONE] frame or a chunk with a finish reason.                           *)
(***************************************************************************)
C10_EmptyOnlyAfterTerminalState ==
  (Resolved /\ provider = "openai" /\ ~result.hasText /\ ~result.hasToolCalls) =>
    (sawDone \/ streamFinished)

(***************************************************************************)
(* C11.  The finalized streaming response has a text field exactly when a  *)
(* non-empty text fragment was consumed, and a toolCalls field exactly     *)
(* when a tool-call fragment was consumed.                                 *)
(***************************************************************************)
C11_FieldsIffFragments ==
  (Resolved /\ provider = "openai") =>
    /\ result.hasText = (\E k \in 1..Len(Consumed) : Consumed[k].content # <<>>)
    /\ result.hasToolCalls = (AllFrags # <<>>)
    /\ ~result.hasText => result.text = <<>>
    /\ ~result.hasToolCalls => result.toolCalls = <<>>

\* A stream of two chunks that carried tool-call fragments and no text,
\* finalized with tool calls and no text field.
C11_Witness ==
  /\ Resolved /\ provider = "openai"
  /\ Len(Consumed) >= 2
  /\ \A k \in 1..Len(Consumed) :
       Consumed[k].content = <<>> /\ Consumed[k].tool_calls # <<>>
  /\ result.hasToolCalls /\ ~result.hasText

(***************************************************************************)
(* C12.  What the framer hands to the parser and what it yields depend     *)
(* only on the characters of the body, not on how the reads cut them: at   *)
(* any moment they are what the complete lines of the text read so far     *)
(* give, each parsed once and whole, and at the end what the whole body    *)
(* gives.                                                                  *)
(***************************************************************************)
\* The framing of a text taken in one piece: its complete lines, and its
\* last, unended line too once the body is closed.
WholeFrames(text, closed) ==
  LET lines == SplitLines(text)
      st == FrameLines(SubSeq(lines, 1, Len(lines) - 1), FramerState(<<>>, <<>>, FALSE))
      rest == Trim(lines[Len(lines)])
  IN IF st.returned \/ ~closed \/ rest = <<>> THEN st
     ELSE FrameLines(<<rest>>, st)

C12_FramingIgnoresReadBoundaries ==
  /\ framerPc = "read" =>
       /\ payloads = WholeFrames(SubSeq(body, 1, offset), FALSE).payloads
       /\ frames = WholeFrames(SubSeq(body, 1, offset), FALSE).frames
  /\ framerPc = "ended" =>
       /\ payloads = WholeFrames(body, TRUE).payloads
       /\ frames = WholeFrames(body, TRUE).frames

\* A body of two data lines, both yielded, that was read in pieces of which
\* one ended in the middle of a line.
C12_Witness ==
  /\ framerPc = "ended"
  /\ splitLine
  /\ Len(frames) = 2
  /\ frames[1] # frames[2]

(***************************************************************************)
(* C13.  A data frame whose payload does not parse even after repair is    *)
(* surfaced: a call in which the framer has looked at such a frame does    *)
(* not resolve with a response.                                            *)
(***************************************************************************)
C13_MalformedFrameSurfaced ==
  (Resolved /\ provider = "openai") =>
    \A k \in 1..Len(wire) : k < pos => wire[k].kind # "garbage"

(***************************************************************************)
(* C14.  Cancellation is observed at call entry and at each chunk-read     *)
(* boundary: with the caller's signal raised, the step the call takes at   *)
(* its entry or at reader.read() is to release the reader and reject with  *)
(* a typed cancellation error, and it reads, accumulates and forwards      *)
(* nothing.                                                                *)
(***************************************************************************)
C14_CancellationObserved ==
  [][(aborted /\ provider = "openai" /\ pc \in {"start", "read"}) =>
       /\ pc' = "rejected"
       /\ failure' = "CancellationError"
       /\ ~readerLocked'
       /\ wire' = wire
       /\ textBuf' = textBuf
       /\ toolCallAccumulators' = toolCallAccumulators
       /\ deltas' = deltas]_vars

(***************************************************************************)
(* C15.  Two chat calls that run concurrently on one provider instance     *)
(* each resolve with the response, and make the onDelta calls, of the      *)
(* same call run alone, however their reads interleave; and no step of     *)
(* one call changes anything of the other.                                 *)
(***************************************************************************)
RECURSIVE RunAlone(_, _)
\* The accumulation loop over the lines of one body, with nothing else going on.
RunAlone(lines, st) ==
  IF lines = <<>> THEN st
  ELSE LET after == ConsumeInto(st, Head(lines)) IN
       IF BreaksLoop(after.streamFinished) THEN after
       ELSE RunAlone(Tail(lines), after)

C15_ConcurrentCallsIndependent ==
  /\ [](\A c \in DOMAIN invocations :
          invocations[c].pc = "resolved" =>
            LET alone == RunAlone(invocations[c].body, NewCall(invocations[c].body)) IN
            /\ invocations[c].deltas = alone.deltas
            /\ \E gens \in [1..Len(alone.toolCallAccumulators) -> GenIds] :
                 invocations[c].result =
                   BuildResponse(alone.textBuf, alone.toolCallAccumulators, gens))
  /\ [][\A c, d \in DOMAIN invocations :
          c # d => (invocations'[c] = invocations[c] \/ invocations'[d] = invocations[d])]_vars

\* Call 2 has run from its first read to its response, with text and a tool
\* call, while call 1, with text in its buffer, still has lines to read.
C15_Witness ==
  /\ invocations # <<>>
  /\ invocations[1].pc = "read"
  /\ invocations[1].textBuf # <<>>
  /\ invocations[1].next <= Len(invocations[1].body)
  /\ invocations[2].pc = "resolved"
  /\ invocations[2].result.hasText /\ invocations[2].result.hasToolCalls
  /\ invocations[2].result.text # Concat(invocations[1].textBuf)

(***************************************************************************)
(* C16.  A status that is not 2xx, on chat (streaming or not) or on        *)
(* listModels, makes the call reject with an LlmProviderError that carries *)
(* that status and the endpoint: nothing is returned, and neither onDelta  *)
(* nor onDone is called.                                                   *)
(***************************************************************************)
C16_HttpStatusRejects ==
  (httpStatus # 0 /\ httpStatus \notin 200..299) =>
    /\ reqPc = "rejected"
    /\ requestError.name = "LlmProviderError"
    /\ requestError.status = httpStatus
    /\ requestError.endpoint =
         Url(BaseUrl, IF op = "chat" THEN ChatEndpoint ELSE ModelsEndpoint)
    /\ returned = NoValue
    /\ handlerCalls.onDelta = 0
    /\ handlerCalls.onDone = 0

\* A streaming chat answered with the status 500: rejected, onError called
\* by both catch blocks.
C16_Witness ==
  /\ op = "chat" /\ IsStreaming(request)
  /\ httpStatus = 500
  /\ reqPc = "rejected"
  /\ requestError.status = 500
  /\ handlerCalls.onError = 2

(***************************************************************************)
(* C17.  The model named in the body of the request is the model of the    *)
(* ChatRequest when it names one, and the provider's configured model      *)
(* only when it names none.                                                *)
(***************************************************************************)
C17_RequestModelWins ==
  (op = "chat" /\ reqPc # "start") =>
    openaiRequest.model = (IF request.model # "" THEN request.model ELSE thisModel)

(***************************************************************************)
(* C18, as claimed.  A streamed tool call that never received an id gets a *)
(* locally generated one, a vendor-supplied id is kept, and the ids of the *)
(* tool calls of one response are pairwise distinct.                       *)
(***************************************************************************)
C18_IdsPairwiseDistinct ==
  Resolved =>
    /\ provider = "openai" =>
         \A p \in 1..Len(result.toolCalls) :
           LET ids == IdsReceived(NthIndex(p)) IN
           /\ ids = <<>> => result.toolCalls[p].id \in GenIds
           /\ ids # <<>> => \E k \in 1..Len(ids) : result.toolCalls[p].id = ids[k]
    /\ \A p, q \in 1..Len(result.toolCalls) :
         p # q => result.toolCalls[p].id # result.toolCalls[q].id

(***************************************************************************)
(* C18, amended.  A streamed tool call that never received an id gets a    *)
(* locally generated one and a vendor-supplied id is kept; two tool calls  *)
(* of one response have the same id only when both ids are the vendor's.   *)
(***************************************************************************)
C18_IdsGeneratedOrKept ==
  Resolved =>
    /\ provider = "openai" =>
         /\ \A p \in 1..Len(result.toolCalls) :
              LET ids == IdsReceived(NthIndex(p)) IN
              /\ ids = <<>> => result.toolCalls[p].id \in GenIds
              /\ ids # <<>> => \E k \in 1..Len(ids) : result.toolCalls[p].id = ids[k]
         /\ \A p, q \in 1..Len(result.toolCalls) :
              (p # q /\ result.toolCalls[p].id = result.toolCalls[q].id) =>
                (IdsReceived(NthIndex(p)) # <<>> /\ IdsReceived(NthIndex(q)) # <<>>)
    /\ provider = "gemini" =>
         /\ \A p \in 1..Len(result.toolCalls) : result.toolCalls[p].id \in GenIds
         /\ \A p, q \in 1..Len(result.toolCalls) :
              p # q => result.toolCalls[p].id # result.toolCalls[q].id

\* A response with two tool calls, the first with the vendor's id and the
\* second, whose fragments carried none, with a generated one.
C18_Witness ==
  /\ Resolved /\ provider = "openai"
  /\ Len(result.toolCalls) = 2
  /\ IdsReceived(NthIndex(1)) = <<"call_A">>
  /\ result.toolCalls[1].id = "call_A"
  /\ IdsReceived(NthIndex(2)) = <<>>
  /\ result.toolCalls[2].id \in GenIds

(***************************************************************************)
(* C19.  The output of truncateToolResult is at most as long as the least  *)
(* of the length of the result, charLimit and four times tokenLimit, plus  *)
(* the length of the annotation when there is one; and a result within     *)
(* both limits is returned unchanged.                                      *)
(***************************************************************************)
\* min(L, charLimit, tokenLimit * 4)
LeastOfThree ==
  Min(Len(toolResult),
      Min(truncationConfig.charLimit, truncationConfig.tokenLimit * 4))

\* The result is within both limits.
WithinLimits ==
  /\ Len(toolResult) <= truncationConfig.charLimit
  /\ (Len(toolResult) + 3) \div 4 <= truncationConfig.tokenLimit

\* The annotation for `removed` characters.
AnnotationFor(removed) ==
  AnnotationHead \o NumberText(removed) \o AnnotationMid
    \o NumberText((removed + 3) \div 4) \o AnnotationTail

\* The length of the annotation at the end of the output, 0 when the output
\* is the result itself.
AnnotationLength ==
  IF truncatedResult = toolResult THEN 0
  ELSE Len(AnnotationFor(Len(toolResult)
             - Min(truncationConfig.charLimit, truncationConfig.tokenLimit * 4)))

C19_TruncationBound ==
  truncPc = "done" =>
    /\ WithinLimits => truncatedResult = toolResult
    /\ Len(truncatedResult) <= LeastOfThree + AnnotationLength

\* C19 as amended: the bound is on the characters kept, of which there are
\* none when a limit is negative.
C19_TruncationBoundFromZero ==
  truncPc = "done" =>
    /\ WithinLimits => truncatedResult = toolResult
    /\ Len(truncatedResult) <=
         (IF LeastOfThree < 0 THEN 0 ELSE LeastOfThree) + AnnotationLength

\* A result of 5 characters under a character limit of -1: nothing is kept
\* and the output is the annotation alone.
C19_Witness ==
  /\ truncPc = "done"
  /\ Len(toolResult) = 5
  /\ truncationConfig = [charLimit |-> -1, tokenLimit |-> 2]
  /\ truncatedResult # toolResult
  /\ Len(truncatedResult) = AnnotationLength

(***************************************************************************)
(* C20.  When truncateToolResult truncates, its output is the first        *)
(* min(charLimit, tokenLimit * 4) characters of the result, followed by    *)
(* the annotation that states the number of characters removed (the length *)
(* of the result less the length of what was kept) and that number divided *)
(* by four, rounded up; 5000 characters under the limits 4000 and 1000     *)
(* give an annotation of 1000 characters removed.                          *)
(***************************************************************************)
C20_TruncationAnnotation ==
  truncPc = "done" =>
    LET kept == SubSeq(toolResult, 1,
                       Min(truncationConfig.charLimit,
                           truncationConfig.tokenLimit * 4))
        removed == Len(toolResult) - Len(kept)
    IN /\ truncatedResult # toolResult =>
            /\ removed > 0
            /\ truncatedResult = kept \o AnnotationFor(removed)
       /\ (Len(toolResult) = TestResultLen
             /\ truncationConfig.charLimit = DefaultCharLimit
             /\ truncationConfig.tokenLimit = DefaultTokenLimit) =>
            truncatedResult =
              SubSeq(toolResult, 1, 4000)
                \o AnnotationHead \o <<"1", "0", "0", "0">> \o AnnotationMid
                \o <<"2", "5", "0">> \o AnnotationTail

(***************************************************************************)
(* C21.  safeParseJson leaves a text that parses alone: it returns the     *)
(* value of JSON.parse and does not call the repair; and the repair is     *)
(* idempotent: when the repaired text parses, repairing it again gives the *)
(* same text.                                                              *)
(***************************************************************************)
C21_ValidUntouchedRepairIdempotent ==
  /\ (jsonPc = "done" /\ JsonParse(jsonInput).ok) =>
       /\ jsonRun.value = JsonParse(jsonInput)
       /\ ~jsonRun.repairApplied
  /\ (Len(repairs) = 2 /\ JsonParse(repairs[1]).ok) => repairs[2] = repairs[1]

(***************************************************************************)
(* C22.  A text cut short inside nested structures whose unclosed openers  *)
(* are of both kinds is parsed to the value of the properly completed      *)
(* document: the one in which every unclosed opener gets its own kind of   *)
(* closer, the innermost first.                                            *)
(***************************************************************************)
RECURSIVE UnclosedOpeners(_, _, _, _)
\* The openers of s from index i on that are not closed, outermost first;
\* inString says whether index i is inside a string literal.
UnclosedOpeners(s, i, stack, inString) ==
  IF i > Len(s) THEN stack
  ELSE IF inString THEN UnclosedOpeners(s, i + 1, stack, s[i] # QT)
  ELSE IF s[i] = QT THEN UnclosedOpeners(s, i + 1, stack, TRUE)
  ELSE IF s[i] \in {LB, LS} THEN UnclosedOpeners(s, i + 1, Append(stack, s[i]), FALSE)
  ELSE IF s[i] \in {RB, RS} /\ stack # <<>>
  THEN UnclosedOpeners(s, i + 1, SubSeq(stack, 1, Len(stack) - 1), FALSE)
  ELSE UnclosedOpeners(s, i + 1, stack, FALSE)

\* The closers of the openers, the innermost first.
ClosersFor(stack) ==
  [k \in 1..Len(stack) |->
     IF stack[Len(stack) + 1 - k] = LB THEN RB ELSE RS]

\* The text completed properly, with the other rewrites of the repair.
ProperlyCompleted(s) ==
  QuoteKeys(
    StripTrailingCommas(
      Trim(s) \o ClosersFor(UnclosedOpeners(Trim(s), 1, <<>>, FALSE)), 1), 1)

\* The unclosed openers of s are of both kinds.
MixedOpeners(s) ==
  /\ CountChar(s, LB) > 0 /\ CountChar(s, LS) > 0
  /\ LET stack == UnclosedOpeners(Trim(s), 1, <<>>, FALSE) IN
     /\ \E k \in 1..Len(stack) : stack[k] = LB
     /\ \E k \in 1..Len(stack) : stack[k] = LS

C22_NestedTruncationRepaired ==
  (jsonPc = "done" /\ MixedOpeners(jsonInput)
     /\ JsonParse(ProperlyCompleted(jsonInput)).ok) =>
    jsonRun.value = JsonParse(ProperlyCompleted(jsonInput))

(***************************************************************************)
(* C23.  A text that parses neither directly nor after the repair pass     *)
(* makes safeParseJson fail, without a value, with a JsonParseError that   *)
(* carries the parser's message and a preview of the text which is at most *)
(* 100 characters long and ends with an ellipsis.                          *)
(***************************************************************************)
\* The call is over and the text parsed neither directly nor repaired.
Irreparable ==
  /\ jsonPc = "done"
  /\ ~JsonParse(jsonInput).ok
  /\ ~JsonParse(attemptJsonRepair(jsonInput)).ok

\* s ends with '...'
EndsWithEllipsis(s) ==
  Len(s) >= 3 /\ SubSeq(s, Len(s) - 2, Len(s)) = Ellipsis

C23_TypedBoundedPreview ==
  Irreparable =>
    /\ ~jsonRun.value.ok
    /\ jsonRun.thrown.name = "JsonParseError"
    /\ jsonRun.thrown.parserMessage
    /\ Len(jsonRun.thrown.preview) <= PreviewLimit
    /\ EndsWithEllipsis(jsonRun.thrown.preview)

\* C23 as amended: the error is a plain Error; the preview is the text itself
\* when it has at most 100 characters, else its first 100 characters and an
\* ellipsis after them.
C23_ErrorWithPreview ==
  /\ Irreparable =>
       /\ ~jsonRun.value.ok
       /\ jsonRun.thrown.name = "Error"
       /\ jsonRun.thrown.parserMessage
       /\ Len(jsonInput) <= PreviewLimit => jsonRun.thrown.preview = jsonInput
       /\ Len(jsonInput) > PreviewLimit =>
            /\ Len(jsonRun.thrown.preview) = PreviewLimit + 3
            /\ SubSeq(jsonRun.thrown.preview, 1, PreviewLimit)
                 = SubSeq(jsonInput, 1, PreviewLimit)
            /\ EndsWithEllipsis(jsonRun.thrown.preview)
  /\ (jsonPc = "done" /\ ~Irreparable) =>
       jsonRun.value.ok /\ jsonRun.thrown = NoJsonError

\* The text of 200 characters of the preview test failed with a preview of
\* 103 characters.
C23_Witness ==
  /\ Irreparable
  /\ Len(jsonInput) = LongInputLen
  /\ jsonRun.thrown.name = "Error"
  /\ Len(jsonRun.thrown.preview) = PreviewLimit + 3

(***************************************************************************)
(* C24.  createWithTip picks the tip by the status: the credential tip for *)
(* 401, the endpoint tip for 404 and the backend tip for every status from *)
(* 500 to 599, whatever the message.                                       *)
(***************************************************************************)
C24_TipByStatus ==
  tipPc = "done" =>
    /\ tipArgs.status = 401 => tipError.tip = "Check your API key"
    /\ tipArgs.status = 404 => tipError.tip = "Verify the API endpoint URL"
    /\ tipArgs.status \in 500..599 => tipError.tip = "Server error"

(***************************************************************************)
(* C25.  Without a status, createWithTip gives the server-not-running tip  *)
(* for 'ECONNREFUSED' and the model-not-loaded tip for 'Model not found',  *)
(* and every call of the test table gets a tip.                            *)
(***************************************************************************)
C25_TipByMessage ==
  tipPc = "done" =>
    /\ (tipArgs.status = 0 /\ tipArgs.message = <<"ECONNREFUSED">>) =>
         tipError.tip = "Check that your LLM server is running"
    /\ (tipArgs.status = 0 /\ tipArgs.message = <<"Model not found">>) =>
         tipError.tip = "Ensure a model is loaded"
    /\ tipArgs \in TipTestTable => tipError.tip # ""

(***************************************************************************)
(* C26.  The content mapper never sends an empty list of parts: a Part[]   *)
(* of which no part can be mapped (it is empty, or its parts have no text, *)
(* no inline data and no file data) is sent as one placeholder text part.  *)
(***************************************************************************)
\* The part has text, inline data or file data.
Mappable(part) == part.text # "" \/ part.inlineData.given \/ part.fileData.given

C26_NeverEmptyPartList ==
  (contentPc = "done" /\ ~msgContent.isString) =>
    /\ ~openaiContent.isString
    /\ openaiContent.parts # <<>>
    /\ (\A k \in 1..Len(msgContent.parts) : ~Mappable(msgContent.parts[k])) =>
         openaiContent.parts = <<TextPart("[Empty content]")>>

\* Two parts, neither of which can be mapped, were sent as the placeholder.
C26_Witness ==
  /\ contentPc = "done"
  /\ ~msgContent.isString
  /\ Len(msgContent.parts) = 2
  /\ \A k \in 1..2 : ~Mappable(msgContent.parts[k])
  /\ openaiContent.parts = <<TextPart("[Empty content]")>>

(***************************************************************************)
(* C27.  The parts are mapped by kind, in their order: text to a text part *)
(* with the same text; inline data of an image/ MIME type to an image_url  *)
(* part with the URL data:<mime>;base64,<payload>; other inline data and   *)
(* file references to a text part that names the MIME type and the size or *)
(* the location, never to an image part.                                   *)
(***************************************************************************)
\* String.prototype.includes
Contains(text, word) ==
  \E i \in 1..(Len(text) - Len(word) + 1) : SubSeq(text, i, i + Len(word) - 1) = word

\* The kind of a part: the first of text, inline data and file data it has.
KindOf(part) ==
  IF part.text # "" THEN "text"
  ELSE IF part.inlineData.given
  THEN IF StartsWith(part.inlineData.mimeType, "image/") THEN "image" ELSE "inline"
  ELSE IF part.fileData.given THEN "file"
  ELSE "none"

\* out is what the claim says a part of this kind is sent as.
MappedAs(part, out) ==
  CASE KindOf(part) = "text" -> out.type = "text" /\ out.text = part.text
    [] KindOf(part) = "image" ->
         /\ out.type = "image_url"
         /\ out.url = "data:" \o part.inlineData.mimeType \o ";base64,"
                        \o part.inlineData.data
    [] KindOf(part) = "inline" ->
         /\ out.type = "text"
         /\ Contains(out.text, part.inlineData.mimeType)
         /\ Contains(out.text, ToString(Len(part.inlineData.data)))
    [] KindOf(part) = "file" ->
         /\ out.type = "text"
         /\ Contains(out.text, part.fileData.mimeType)
         /\ Contains(out.text, part.fileData.fileUri)
    [] OTHER -> FALSE

\* The parts of the content that have a kind, in their order.
PartsOfAKind == SelectSeq(msgContent.parts, LAMBDA part : KindOf(part) # "none")

C27_PartsMappedByKindInOrder ==
  (contentPc = "done" /\ ~msgContent.isString /\ PartsOfAKind # <<>>) =>
    /\ Len(openaiContent.parts) = Len(PartsOfAKind)
    /\ \A k \in 1..Len(PartsOfAKind) :
         MappedAs(PartsOfAKind[k], openaiContent.parts[k])

\* An image, a PDF and a file reference were sent as an image part and two
\* text parts, in that order.
C27_Witness ==
  /\ contentPc = "done"
  /\ ~msgContent.isString
  /\ Len(msgContent.parts) = 3
  /\ KindOf(msgContent.parts[1]) = "image"
  /\ KindOf(msgContent.parts[2]) = "inline" /\ msgContent.parts[2].inlineData.mimeType # ""
  /\ KindOf(msgContent.parts[3]) = "file"
  /\ openaiContent.parts[1].type = "image_url"
  /\ openaiContent.parts[2].text = "[File: application/pdf, 8 bytes]"
  /\ openaiContent.parts[3].text = "[File: video/mp4, gs://bucket/clip]"

\* The caller or the environment names a provider.
NamedExplicitly ==
  \/ factoryConfig.provider # ""
  \/ env.AIFA_DEFAULT_API # ""
  \/ env.LLM_PROVIDER # ""

\* The provider, and the configuration, that the first applicable rule
\* of the selection order gives.
FirstRuleChoice ==
  IF factoryConfig.provider # ""
  THEN [name |-> factoryConfig.provider, config |-> "config"]
  ELSE IF env.AIFA_DEFAULT_API # ""
  THEN [name |-> ToLowerCase(env.AIFA_DEFAULT_API), config |-> "config"]
  ELSE IF env.LLM_PROVIDER # ""
  THEN [name |-> env.LLM_PROVIDER, config |-> "config"]
  ELSE IF localServers.lmStudio = "ok"
  THEN [name |-> "openai-compatible", config |-> LMStudioUrl]
  ELSE IF localServers.ollama = "ok"
  THEN [name |-> "openai-compatible", config |-> OllamaUrl]
  ELSE IF env.OPENAI_COMPATIBLE_BASE_URL # "" \/ env.OPENAI_API_BASE # ""
  THEN [name |-> "openai-compatible", config |-> "config"]
  ELSE IF env.GEMINI_API_KEY # ""
  THEN [name |-> "google-gemini", config |-> "config"]
  ELSE [name |-> "google-gemini", config |-> "config"]

ChunksLookedAt ==
  SelectSeq(SubSeq(wire, 1, pos - 1), LAMBDA l : l.kind = "chunk")

\* The finish-reason chunk was followed by a chunk line that had already
\* been delivered when the loop stopped, with no [DONE] in between.
ChunkBufferedAfterFinish ==
  /\ provider = "openai" /\ streamFinished /\ thrown = ""
  /\ pos <= Len(wire)
  /\ wire[pos].kind = "chunk"

(***************************************************************************)
(* C29, as claimed.  A chunk that follows the finish-reason chunk and was  *)
(* already delivered, before any [DONE], is read (the framer yields it)    *)
(* and merged into the response; and once the finish reason is processed   *)
(* the call is never at reader.read() waiting for more.                    *)
(***************************************************************************)
C29_BufferedChunkMerged ==
  /\ (Resolved /\ ChunkBufferedAfterFinish) =>
       /\ Len(yielded) > Len(ChunksLookedAt)
       /\ wire[pos].content # <<>> =>
            /\ deltas # <<>>
            /\ deltas[Len(deltas)] = wire[pos].content
  /\ (streamFinished /\ thrown = "") => pc # "read"

(***************************************************************************)
(* C29, amended.  A chunk that follows the finish-reason chunk is neither  *)
(* read nor merged, delivered already or not: what the framer has yielded  *)
(* ends with the finish-reason chunk, the lines after it are never looked  *)
(* at, the response is built from the text up to that chunk, and the call  *)
(* is past its loop, so that it never waits for a chunk not yet received.  *)
(***************************************************************************)
C29_BufferedChunkIgnored ==
  (provider = "openai" /\ streamFinished /\ thrown = "") =>
    /\ pc \in {"finalize", "resolved", "rejected"}
    /\ yielded = ChunksLookedAt
    /\ yielded[Len(yielded)].finish_reason = finishReason
    /\ deltas = textBuf
    /\ textBuf =
         LET withText == SelectSeq(Consumed, LAMBDA c : c.content # <<>>) IN
         [k \in 1..Len(withText) |-> withText[k].content]
    /\ Resolved => result.text = Concat(textBuf)

\* Text, the finish-reason chunk and one more text chunk arrived in one
\* read: the call resolved with the first text alone.
C29_Witness ==
  /\ Resolved /\ ChunkBufferedAfterFinish
  /\ wire[pos].hasChoice /\ wire[pos].content # <<>>
  /\ Len(Consumed) = 2
  /\ Consumed[1].content # <<>> /\ Consumed[1].content # wire[pos].content
  /\ Consumed[2].content = <<>>
  /\ result.text = Consumed[1].content

\* The chunk that carried the finish reason, once the loop body has run to
\* its end for it.
FinishChunk == yielded[Len(yielded)]

(***************************************************************************)
(* C30.  When the loop has stopped on a chunk with a finish reason, what   *)
(* that chunk carried is in the buffers: its text is the last element of   *)
(* the text buffer and the last text passed to onDelta, every index of its *)
(* tool-call fragments has an accumulator, and the argument source of      *)
(* each is the concatenation of all fragments received for the index,      *)
(* those of this chunk included.  (The loop body has run to its end:       *)
(* onDelta did not throw.)                                                 *)
(***************************************************************************)
C30_FinishChunkProcessed ==
  (provider = "openai" /\ streamFinished /\ thrown = "") =>
    /\ FinishChunk.hasChoice /\ FinishChunk.finish_reason # ""
    /\ FinishChunk.content # <<>> =>
         /\ textBuf # <<>> /\ textBuf[Len(textBuf)] = FinishChunk.content
         /\ deltas # <<>> /\ deltas[Len(deltas)] = FinishChunk.content
    /\ \A k \in 1..Len(FinishChunk.tool_calls) :
         LET i == FinishChunk.tool_calls[k].index IN
         /\ \E a \in 1..Len(toolCallAccumulators) :
              toolCallAccumulators[a].index = i
         /\ AccOf(i).argsSrc = ArgsReceived(i)

\* A text chunk, then a chunk with text, two fragments and the finish
\* reason: the response has both texts and both tool calls.
C30_Witness ==
  /\ Resolved /\ provider = "openai" /\ streamFinished
  /\ Len(Consumed) = 2
  /\ Consumed[1].content # <<>>
  /\ FinishChunk.content # <<>> /\ FinishChunk.content # Consumed[1].content
  /\ Len(FinishChunk.tool_calls) = 2
  /\ result.text = Consumed[1].content \o FinishChunk.content
  /\ Len(result.toolCalls) = 2

\* The tool calls of the vendor's message.
CallsReceived ==
  IF vendorResponse.hasMessage /\ vendorResponse.hasToolCalls
  THEN vendorResponse.tool_calls ELSE <<>>

\* The tool calls whose arguments string is there and parses neither as it
\* is nor after repair.
UnparseableCalls ==
  {k \in 1..Len(CallsReceived) :
     /\ CallsReceived[k].arguments # <<>>
     /\ ~JsonParse(CallsReceived[k].arguments).ok
     /\ ~JsonParse(attemptJsonRepair(CallsReceived[k].arguments)).ok}

(***************************************************************************)
(* C31.  A non-streaming chat whose response carries a tool call with an   *)
(* arguments string that parses neither directly nor after repair          *)
(* rejects, with the error of safeParseJson (its preview is that of the    *)
(* first such string), which is also passed to onError when handlers are   *)
(* given; and a chat that resolves has, for every tool call, the value     *)
(* its arguments string parses to, the empty object only for a string      *)
(* that is empty or parses to it.                                          *)
(***************************************************************************)
C31_ParseFailureRejects ==
  respPc # "call" =>
    /\ UnparseableCalls # {} =>
         /\ respPc = "rejected"
         /\ respError.name = "Error"
         /\ \E k \in UnparseableCalls :
              /\ \A j \in UnparseableCalls : k <= j
              /\ respError.preview = Preview(CallsReceived[k].arguments)
         /\ respOnErrors = IF respHandlers THEN <<respError>> ELSE <<>>
    /\ respPc = "resolved" =>
         /\ Len(llmResponse.toolCalls) = Len(CallsReceived)
         /\ \A k \in 1..Len(CallsReceived) :
              LET src == CallsReceived[k].arguments
                  val == llmResponse.toolCalls[k].arguments IN
              /\ src # <<>> =>
                   val \in {JsonParse(src).val, JsonParse(attemptJsonRepair(src)).val}
              /\ val = EmptyObject =>
                   \/ src = <<>>
                   \/ /\ JsonParse(src).ok
                      /\ JsonParse(src).val = EmptyObject

\* A response with a tool call that parses and then one that does not:
\* chat rejected and the handlers were told.
C31_Witness ==
  /\ respPc = "rejected" /\ respHandlers
  /\ Len(CallsReceived) = 2
  /\ CallsReceived[1].arguments = ArgOpen \o ArgClose
  /\ CallsReceived[2].arguments = ArgClose
  /\ respError = ParseFailure(ArgClose)
  /\ respOnErrors = <<respError>>

(***************************************************************************)
(* C32.  A streaming chat made with handlers ends with exactly one         *)
(* terminal callback, called once: onDone once and onError never when it   *)
(* resolves, onError once and onDone never when it rejects.                *)
(***************************************************************************)
C32_OneTerminalCallback ==
  /\ Resolved => Len(doneArgs) = 1 /\ errorCalls = <<>>
  /\ Rejected => Len(errorCalls) = 1 /\ doneArgs = <<>>

\* The call is past its accumulation loop: at "Build final response",
\* resolved or rejected.
LoopEnded == pc \in {"finalize", "resolved", "rejected"}

(***************************************************************************)
(* C33.  However the streaming call ends once getReader() has returned     *)
(* ([DONE], end of body, break at the finish reason, a read that rejects,  *)
(* an exception of onDelta), the lock of the reader is released by then;   *)
(* it is released once, since a released lock is never taken again; and   *)
(* reader.read() is only ever called, and only ever returns, with the      *)
(* lock held.                                                              *)
(***************************************************************************)
C33_ReaderReleasedOnce ==
  /\ [](LoopEnded => ~readerLocked)
  /\ [](pc \in {"read", "lines", "consume"} /\ provider = "openai" => readerLocked)
  /\ [][readerLocked' => (readerLocked \/ pc = "start")]_vars
  /\ [][(wire' # wire \/ bodyDone' # bodyDone) => readerLocked]_vars

\* A call that took the lock, read a text chunk and a chunk with a finish
\* reason, broke out of its loop with a line still unread, and resolved with
\* the lock released.
C33_Witness ==
  /\ Resolved /\ provider = "openai"
  /\ ~readerLocked
  /\ streamFinished /\ ~bodyDone /\ ~sawDone
  /\ pos <= Len(wire)

(***************************************************************************)
(* C34.  How the response of a chat is read agrees with the stream flag of *)
(* the body sent: after an ok status a body with stream = true is read by  *)
(* the framer and the accumulator (the streaming path), and a chat that    *)
(* resolves from the response as one JSON document (straight from the      *)
(* fetch) had sent a body without stream = true.                           *)
(***************************************************************************)
C34_ConsumptionAgreesWithFlag ==
  [][(op = "chat" /\ reqPc = "converted") =>
       /\ (openaiRequest.stream /\ ResponseOk(httpStatus')) => reqPc' = "streaming"
       /\ reqPc' = "resolved" => ~openaiRequest.stream]_vars

\* The function declarations of the request, Tool by Tool.
DeclaredFunctions == Concat(requestTools)

(***************************************************************************)
(* C35.  Every function declaration of request.tools is in the tools of    *)
(* the vendor request with its name, description and parameters, also      *)
(* when one Tool carries several functionDeclarations.                     *)
(***************************************************************************)
C35_EveryDeclarationSent ==
  toolsPc = "done" =>
    \A d \in 1..Len(DeclaredFunctions) :
      /\ openaiTools.present
      /\ \E k \in 1..Len(openaiTools.tools) :
           /\ openaiTools.tools[k].type = "function"
           /\ openaiTools.tools[k].function = DeclaredFunctions[d]

\* A JSON value that is an object, in its text.
IsJsonObject(val) == val # <<>> /\ val[1] = LB

(***************************************************************************)
(* C36.  Every tool call of a response finalized from a stream has a name  *)
(* that is not empty and arguments that are a JSON object, whatever the    *)
(* fragments were.                                                         *)
(***************************************************************************)
C36_ToolCallsWellFormed ==
  finalPc = "done" =>
    \A k \in 1..Len(finalized.toolCalls) :
      /\ finalized.toolCalls[k].name # ""
      /\ IsJsonObject(finalized.toolCalls[k].arguments)

\* The names of the function calls the chunks of a Gemini stream carried,
\* in arrival order.
FunctionCallsStreamed ==
  LET calls == Concat([k \in 1..Len(yielded) |->
                         FunctionCallParts(IF yielded[k].hasParts
                                           THEN yielded[k].parts ELSE <<>>)])
  IN [k \in 1..Len(calls) |-> calls[k].functionCall]

(***************************************************************************)
(* C37.  A streaming chat of the Gemini adapter that resolves has, in its  *)
(* response, every tool call that any chunk of the stream carried, those   *)
(* of earlier chunks included, in arrival order.                           *)
(***************************************************************************)
C37_GeminiToolCallsKept ==
  (Resolved /\ provider = "gemini") =>
    /\ Len(result.toolCalls) = Len(FunctionCallsStreamed)
    /\ \A k \in 1..Len(FunctionCallsStreamed) :
         result.toolCalls[k].name = FunctionCallsStreamed[k]

\* How often the text has the piece in it.
Occurrences(s, piece) ==
  Cardinality({i \in 1..(Len(s) - Len(piece) + 1) :
                 SubSeq(s, i, i + Len(piece) - 1) = piece})

(***************************************************************************)
(* C38.  The base URL the factory gives to the OpenAI-compatible provider  *)
(* ends with '/v1' and has that segment once, whether the URL configured   *)
(* ends with '/v1', with a slash or with neither; and normalising the      *)
(* result again gives the same URL.                                        *)
(***************************************************************************)
C38_OneV1Segment ==
  (factoryPc = "resolved" /\ created.name = "openai-compatible") =>
    /\ EndsWith(created.baseUrl, "/v1")
    /\ Occurrences(created.baseUrl, "/v1") = 1
    /\ FactoryBaseUrl(created.baseUrl, env) = created.baseUrl

(***************************************************************************)
(* C39.  Once createLlmProvider has been called both built-in providers    *)
(* are registered, whatever was registered before; a creation it is asked  *)
(* for under a built-in name is not rejected as unknown; and a creation    *)
(* under a name that is not registered is rejected with 'Unknown LLM       *)
(* provider'.                                                              *)
(***************************************************************************)
C39_BuiltinsRegistered ==
  /\ factoryCalled => BuiltinProviders \subseteq factories
  /\ (creation.via = "createLlmProvider" /\ creation.name \in BuiltinProviders) =>
       creation.error = ""
  /\ (creation.via # "" /\ creation.name \notin factories) =>
       Occurrences(creation.error, "Unknown LLM provider") = 1

(***************************************************************************)
(* C40.  With maxSessionTurns >= 0 a run of runNonInteractive calls        *)
(* sendMessageStream at most maxSessionTurns times; every turn but the     *)
(* first follows a turn that asked for at least one tool call; and after a *)
(* turn that asked for none the run has ended, with no further request.    *)
(***************************************************************************)
C40_TurnsBounded ==
  /\ maxSessionTurns >= 0 => requestsSent <= maxSessionTurns
  /\ requestsSent <= Len(turns) + 1
  /\ \A k \in 1..Len(turns) : k < requestsSent => turns[k] > 0
  /\ (turns # <<>> /\ turns[Len(turns)] = 0) =>
       /\ turnPc = "ended"
       /\ requestsSent = Len(turns)

\* A run limited to two turns, both of which asked for tool calls: the
\* third turn is refused and the run ends after two requests.
C40_Witness ==
  /\ maxSessionTurns = 2
  /\ turnPc = "ended"
  /\ turnCount = 3
  /\ requestsSent = 2
  /\ Len(turns) = 2 /\ turns[1] > 0 /\ turns[2] > 0

====
